---- MODULE Spec2Model ----
(***************************************************************************)
(* Model of the PSP dashboard backend: the two provider sync services      *)
(* (Vima, PayShack), their normalizers, the canonical transactions table,  *)
(* the per-source sync_state row and the scheduler / manual trigger that   *)
(* start sync runs.                                                        *)
(*                                                                         *)
(* Conventions.  NULL stands for Python None / SQL NULL in numeric fields. *)
(* Amounts are fixed-point, in hundredths of the currency unit.  Strings   *)
(* that only matter through their length (error messages) are modelled by *)
(* that length.  Timestamps are logical instants.  The dedup key (SHA-256  *)
(* of "source|source_id|amount|currency|created_at") is modelled by the    *)
(* tuple of the five hashed texts, i.e. the hash is taken to be free of    *)
(* collisions.  A Decimal is its value together with the number of digits  *)
(* it shows behind the point.                                              *)
(***************************************************************************)
EXTENDS Integers, Sequences, FiniteSets, TLC

VARIABLES
    transactions,   \* committed rows of table "transactions"
    sync_state,     \* committed row of table "sync_state", per source
    runs,           \* the sync runs (coroutines) of this process, by slot
    vima_feed,      \* upstream Vima operations: kind and version per operation
    payin_feed,     \* upstream PayShack pay-in transactions
    payout_feed,    \* upstream PayShack pay-out transactions
    initial_done,   \* initial_sync() of this process has run
    crashes,        \* number of process terminations so far
    last_upsert,    \* history: the batch of the most recent committed upsert
    focus,          \* which sources' runs this behaviour schedules
    norm_in,        \* raw records handed to the normalizers
    norm_out,       \* what the normalizers returned for them
    recon_runs,     \* committed rows of table "reconciliation_runs"
    recon_results,  \* committed rows of table "reconciliation_results"
    recon_tasks,    \* reconciliation background tasks of this process
    call,           \* a call of a connector's page-fetching method
    active_connections, \* manager.active_connections of api/websocket.py
    delivery        \* per run: the broadcasts it is awaiting

syncvars == <<transactions, sync_state, runs, vima_feed, payin_feed, payout_feed,
              initial_done, crashes, last_upsert, focus>>
normvars == <<norm_in, norm_out>>
reconvars == <<recon_runs, recon_results, recon_tasks>>
clientvars == <<call>>
eventvars == <<active_connections, delivery>>

vars == <<syncvars, normvars, reconvars, clientvars, eventvars>>

-----------------------------------------------------------------------------
(* Bounds of the model *)

NVimaOps == 3
NPayin == 3
NPayout == 1
MaxVer == 2
MaxRuns == 2
MaxUpdates == 1
MaxCrashes == 1
PageSize == 2
vima_max_batches == 2
hist_max_batches == 2
payin_max_pages == 2
payout_max_pages == 1
initial_sync_days == 1
FeedDay == 1
MaxReconTasks == 2
RecursionLimit == 3

(* Program constants *)

ErrLimit == 500
AmountScale == 100
InrRateMilli == 12
AMOUNT_TOLERANCE == 1
AMOUNT_TOLERANCE_PERCENT == 1
StopAfter == 3

NULL == -1
Sources == {"vima", "payshack"}

Min(a, b) == IF a < b THEN a ELSE b

\* A behaviour schedules the runs of one source against an upstream that
\* may misbehave, or the runs of both sources against one that answers
\* every request with the page asked for.  (A run the scheduler never gets
\* to is part of the interleaving semantics; this bounds which
\* interleavings are explored.)
Focuses == {"vima", "payshack", "both"}

\* A behaviour may also follow the broadcasts of the runs of one source to
\* the clients of /updates, against an upstream that answers every request
\* with the page asked for.
Watch == [vima |-> "vima events", payshack |-> "payshack events"]

InFocus(s) == focus \in {s, "both", Watch[s]}

\* The broadcasts of the runs are under observation.
Observed == focus \in {Watch[s] : s \in Sources}

\* The upstream may answer with errors and re-served pages, records may
\* change upstream, requests may be triggered by hand, the process may die.
Adverse == focus \in Sources

-----------------------------------------------------------------------------
(* Upstream records *)

Kinds == {"ok", "bad"}

\* Python None / JSON null in a text field.
NONE == "<None>"

\* A JSON number, as the Decimal that Decimal(str(x)) makes of it: val is
\* its value in hundredths, dp the number of digits behind the point that
\* the text of x shows (100 -> 0, 100.0 -> 1, "100.00" -> 2).  Decimal keeps
\* both.
Num(val, dp) == [val |-> val, dp |-> dp]

\* Python None / JSON null where a number is expected.
NoneNum == [none |-> TRUE]

\* The Vima operation i as the API serves it in version ver.  Version 1 is
\* the operation in process (amount only in create_params, in minor units);
\* version 2 is the completed operation (complete_amount in major units, a
\* charged fee, a completion time).  Kind "bad" is an operation whose
\* create_params is JSON null.  create_params stands for the value of
\* create_params.params.payment.amount nested in it.
VimaRaw(i, ver, kind) ==
    [ operation_id |-> i,
      operation_create_id |-> i,
      operation_update_id |-> ver,
      client_operation_id |-> i,
      complete_amount |-> IF ver >= 2 THEN Num(i * AmountScale, 0) ELSE NoneNum,
      create_params |-> IF kind = "bad" THEN NULL ELSE i * AmountScale,
      payment_status |-> IF ver >= 2 THEN "Success" ELSE "in_process",
      operation_created_at |-> i,
      operation_modified_at |-> ver,
      complete_created_at |-> IF ver >= 2 THEN ver ELSE NULL,
      charged_fee |-> IF ver >= 2 THEN 1 ELSE NULL ]

\* The PayShack transaction i in version ver.  Version 1 is initiated, with
\* no UTR yet; version 2 is successful.  Kind "bad" carries a null amount.
PayShackRaw(i, ver, kind) ==
    [ txnId |-> i,
      orderId |-> i,
      amount |-> IF kind = "bad" THEN NoneNum ELSE Num(i * AmountScale, 0),
      txnStatus |-> IF ver >= 2 THEN "Success" ELSE "Initiated",
      createdAt |-> i,
      modifiedAt |-> ver,
      utr |-> IF ver >= 2 THEN i ELSE NULL,
      totalCommissionAmount |-> NULL ]

-----------------------------------------------------------------------------
(* Normalizers *)

\* dict.get(key, default)
Get(d, key, default) == IF key \in DOMAIN d THEN d[key] ELSE default

\* Truth value of a text, and the Python expression "x or y" on texts.
Truthy(x) == x \notin {NONE, ""}
Or(x, y) == IF Truthy(x) THEN x ELSE y

\* The status words of the feeds in the spellings <<lower, UPPER, Title>>.
\* "expired" and "chargeback" are in neither STATUS_MAP.
Spellings ==
    { <<"success", "SUCCESS", "Success">>,
      <<"fail", "FAIL", "Fail">>,
      <<"failed", "FAILED", "Failed">>,
      <<"in_process", "IN_PROCESS", "In_Process">>,
      <<"in process", "IN PROCESS", "In Process">>,
      <<"user_input_required", "USER_INPUT_REQUIRED", "User_Input_Required">>,
      <<"pending", "PENDING", "Pending">>,
      <<"initiated", "INITIATED", "Initiated">>,
      <<"incomplete", "INCOMPLETE", "Incomplete">>,
      <<"refunded", "REFUNDED", "Refunded">>,
      <<"cb_refunded", "CB_REFUNDED", "Cb_Refunded">>,
      <<"tampered", "TAMPERED", "Tampered">>,
      <<"expired", "EXPIRED", "Expired">>,
      <<"chargeback", "CHARGEBACK", "Chargeback">> }

\* str.lower() left out.
SameCase(s) == s

\* str.lower() on these spellings.
Lower(s) ==
    IF \E w \in Spellings : s \in {w[1], w[2], w[3]}
    THEN (CHOOSE w \in Spellings : s \in {w[1], w[2], w[3]})[1]
    ELSE s

\* VimaNormalizer.STATUS_MAP.get(s, "pending")
VimaStatusMap(s) ==
    CASE s = "success" -> "success"
      [] s = "fail" -> "failed"
      [] s = "failed" -> "failed"
      [] s = "in_process" -> "pending"
      [] s = "in process" -> "pending"
      [] s = "user_input_required" -> "pending"
      [] s = "pending" -> "pending"
      [] OTHER -> "pending"

\* PayShackNormalizer.STATUS_MAP.get(s, "pending")
PayShackStatusMap(s) ==
    CASE s = "success" -> "success"
      [] s = "failed" -> "failed"
      [] s = "initiated" -> "pending"
      [] s = "pending" -> "pending"
      [] s = "in process" -> "processing"
      [] s = "in_process" -> "processing"
      [] s = "incomplete" -> "pending"
      [] s = "refunded" -> "refunded"
      [] s = "cb_refunded" -> "refunded"
      [] s = "tampered" -> "failed"
      [] OTHER -> "pending"

\* original_status.lower() if original_status else ""
StatusKey(original_status) ==
    IF Truthy(original_status) THEN Lower(original_status) ELSE ""

\* The minor-unit value taken for major units.
NoDivision(value) == Num(value * AmountScale, 0)

\* Decimal(str(value)) / 100 for an integer count of minor units: the
\* quotient carries as many digits behind the point as it needs.
DivHundred(value) ==
    Num(value, IF value % 100 = 0 THEN 0 ELSE IF value % 10 = 0 THEN 1 ELSE 2)

\* The text f"{amount}" of a Decimal: its digits, so Decimals of one value
\* and different dp give different texts.
Str(amount) == <<amount.val, amount.dp>>

\* _parse_datetime: None for a missing value, the instant otherwise.
ParseDatetime(value) == IF value = NULL THEN NULL ELSE value

\* _calculate_hash: SHA-256 of "source|source_id|amount|currency|created_at",
\* as the five texts hashed.
CalculateHash(source, source_id, amount, currency, created_at) ==
    <<source, source_id, Str(amount), currency, created_at>>

\* VimaNormalizer.normalize raises when create_params is null (None has no
\* get).
VimaNormalizeRaises(raw) == Get(raw, "create_params", 0) = NULL

\* VimaNormalizer.normalize, for a record on which it does not raise.
VimaNormalize(raw) ==
    LET complete_amount == Get(raw, "complete_amount", NoneNum)
        amount == IF complete_amount = NoneNum
                  THEN DivHundred(Get(raw, "create_params", 0))
                  ELSE complete_amount
        currency == Or(Get(raw, "complete_currency", NONE), "INR")
        original_status == Or(Get(raw, "payment_status", NONE),
                              Get(raw, "current_status", ""))
        status == VimaStatusMap(StatusKey(original_status))
        created_at == ParseDatetime(Get(raw, "operation_created_at", NULL))
        charged_fee == Get(raw, "charged_fee", NULL)
    IN  [ source |-> "vima",
          source_id |-> raw.operation_id,
          client_operation_id |-> Get(raw, "client_operation_id", NULL),
          order_id |-> NULL,
          amount |-> amount,
          currency |-> currency,
          fee |-> IF charged_fee = NULL THEN NULL ELSE charged_fee * AmountScale,
          amount_usd |-> NULL,
          fee_usd |-> NULL,
          exchange_rate |-> NULL,
          status |-> status,
          original_status |-> original_status,
          utr |-> NULL,
          payment_product |-> "",
          created_at |-> created_at,
          updated_at |-> ParseDatetime(Get(raw, "operation_modified_at", NULL)),
          completed_at |-> ParseDatetime(Get(raw, "complete_created_at", NULL)),
          source_create_cursor |-> Get(raw, "operation_create_id", NULL),
          source_update_cursor |-> Get(raw, "operation_update_id", NULL),
          raw_data |-> raw,
          data_hash |-> CalculateHash("vima", raw.operation_id, amount, currency,
                                      created_at) ]

\* currency_service.convert_sync at the static INR rate (0.012), the result
\* in ten-thousandths of a dollar.
ConvertSync(amount) == (amount * InrRateMilli) \div 10

\* PayShackNormalizer raises when Decimal(str(amount)) does.
PayShackNormalizeRaises(raw) == Get(raw, "amount", Num(0, 0)) = NoneNum

\* PayShackNormalizer.normalize_payin / normalize_payout (product "payin" or
\* "payout"), for a record on which it does not raise.  Pay-out records may
\* carry their status under "status".
PayShackNormalize(raw, product) ==
    LET amount == Get(raw, "amount", Num(0, 0))
        original_status ==
            IF product = "payin" THEN Get(raw, "txnStatus", "")
            ELSE Or(Get(raw, "txnStatus", NONE), Get(raw, "status", ""))
        status == PayShackStatusMap(StatusKey(original_status))
        created_at == ParseDatetime(Get(raw, "createdAt", NULL))
        updated_at == ParseDatetime(Get(raw, "modifiedAt", NULL))
        commission == Get(raw, "totalCommissionAmount", NULL)
        fee == IF commission = NULL THEN NULL ELSE commission * AmountScale
    IN  [ source |-> "payshack",
          source_id |-> raw.txnId,
          client_operation_id |-> Get(raw, "orderId", NULL),
          order_id |-> Get(raw, "orderId", NULL),
          amount |-> amount,
          currency |-> "INR",
          fee |-> fee,
          amount_usd |-> ConvertSync(amount.val),
          fee_usd |-> IF fee = NULL THEN NULL ELSE ConvertSync(fee),
          exchange_rate |-> InrRateMilli,
          status |-> status,
          original_status |-> original_status,
          utr |-> Get(raw, "utr", NULL),
          payment_product |-> product,
          created_at |-> created_at,
          updated_at |-> updated_at,
          completed_at |-> IF status = "success" THEN updated_at ELSE NULL,
          source_create_cursor |-> NULL,
          source_update_cursor |-> NULL,
          raw_data |-> raw,
          data_hash |-> CalculateHash("payshack", raw.txnId, amount, "INR",
                                      created_at) ]

\* The records of a page that normalize, normalized, in page order (the
\* try/except around normalize in the sync loops).
RECURSIVE VimaNormalizeBatch(_)
VimaNormalizeBatch(ops) ==
    IF ops = <<>> THEN <<>>
    ELSE IF VimaNormalizeRaises(Head(ops))
         THEN VimaNormalizeBatch(Tail(ops))
         ELSE <<VimaNormalize(Head(ops))>> \o VimaNormalizeBatch(Tail(ops))

RECURSIVE PayShackNormalizeBatch(_, _)
PayShackNormalizeBatch(txns, product) ==
    IF txns = <<>> THEN <<>>
    ELSE IF PayShackNormalizeRaises(Head(txns))
         THEN PayShackNormalizeBatch(Tail(txns), product)
         ELSE <<PayShackNormalize(Head(txns), product)>>
              \o PayShackNormalizeBatch(Tail(txns), product)

-----------------------------------------------------------------------------
(* The transactions table *)

\* Logical instant at which run r reads the clock: runs of a source are
\* numbered in the order they were started.
Now(r) == r[2]

\* Row inserted for a normalized record: a fresh primary key (named after
\* the dedup key and the number of rows that already carry it) and the
\* server default of ingested_at.
NewRow(store, n, now) ==
    [ id |-> <<n.data_hash, Cardinality({row \in store : row.data_hash = n.data_hash})>>,
      ingested_at |-> now,
      source |-> n.source,
      source_id |-> n.source_id,
      client_operation_id |-> n.client_operation_id,
      order_id |-> n.order_id,
      amount |-> n.amount.val,
      currency |-> n.currency,
      fee |-> n.fee,
      amount_usd |-> n.amount_usd,
      fee_usd |-> n.fee_usd,
      exchange_rate |-> n.exchange_rate,
      status |-> n.status,
      original_status |-> n.original_status,
      utr |-> n.utr,
      payment_product |-> n.payment_product,
      created_at |-> n.created_at,
      updated_at |-> n.updated_at,
      completed_at |-> n.completed_at,
      source_create_cursor |-> n.source_create_cursor,
      source_update_cursor |-> n.source_update_cursor,
      raw_data |-> n.raw_data,
      data_hash |-> n.data_hash ]

\* Faulty variant of the SET list: every column is overwritten.
OverwriteAll(row, n, now) == [NewRow({}, n, now) EXCEPT !.id = row.id]

\* ON CONFLICT (data_hash) DO UPDATE SET ... of VimaSyncService.
VimaOnConflict(row, n, now) ==
    [row EXCEPT !.status = n.status,
                !.original_status = n.original_status,
                !.updated_at = n.updated_at,
                !.completed_at = n.completed_at,
                !.source_update_cursor = n.source_update_cursor,
                !.raw_data = n.raw_data]

\* ON CONFLICT (data_hash) DO UPDATE SET ... of PayShackSyncService.
PayShackOnConflict(row, n, now) ==
    [row EXCEPT !.status = n.status,
                !.original_status = n.original_status,
                !.updated_at = n.updated_at,
                !.completed_at = n.completed_at,
                !.utr = n.utr,
                !.amount_usd = n.amount_usd,
                !.fee_usd = n.fee_usd,
                !.exchange_rate = n.exchange_rate,
                !.raw_data = n.raw_data,
                !.ingested_at = now]

\* Faulty variant of the conflict branch: the existing row is left as it is.
KeepRow(row, n, now) == row

OnConflict(row, n, now) ==
    IF n.source = "vima" THEN VimaOnConflict(row, n, now)
    ELSE PayShackOnConflict(row, n, now)

\* Faulty variant of the unique index: no row ever conflicts.
NoConflict(store, n) == {}

\* The unique index on data_hash decides between insert and update.
Conflicts(store, n) == {row \in store : row.data_hash = n.data_hash}

\* INSERT ... ON CONFLICT (data_hash) DO UPDATE of one normalized record.
UpsertOne(store, n, now) ==
    IF Conflicts(store, n) # {}
    THEN {IF row \in Conflicts(store, n) THEN OnConflict(row, n, now) ELSE row
          : row \in store}
    ELSE store \cup {NewRow(store, n, now)}

\* Faulty variant: the statement is never executed.
NoUpsert(store, batch, now) == store

\* _upsert_transactions: the records of a batch, in order.  (The pages of
\* the feeds never hold the same dedup key twice.)
RECURSIVE UpsertTransactions(_, _, _)
UpsertTransactions(store, batch, now) ==
    IF batch = <<>> THEN store
    ELSE UpsertTransactions(UpsertOne(store, Head(batch), now), Tail(batch), now)

-----------------------------------------------------------------------------
(* The sync_state table *)

\* No row for the source yet.
NoSyncState ==
    [ present |-> FALSE,
      sync_status |-> "idle",
      last_create_cursor |-> NULL,
      last_sync_at |-> NULL,
      last_successful_sync |-> NULL,
      error_message |-> NULL,
      records_synced |-> 0 ]

\* SyncState(source=..., sync_status="idle") and column defaults.
FreshSyncState == [NoSyncState EXCEPT !.present = TRUE]

SetFields(st, kw) ==
    [f \in DOMAIN st |-> IF f \in DOMAIN kw THEN kw[f] ELSE st[f]]

\* VimaSyncService._update_sync_state: updates the row if there is one.
VimaUpdateSyncState(st, kw) ==
    IF st.present THEN SetFields(st, kw) ELSE st

\* PayShackSyncService._update_sync_state: updates the row, or adds one.
PayShackUpdateSyncState(st, kw) ==
    IF st.present THEN SetFields(st, kw) ELSE SetFields(FreshSyncState, kw)

\* _get_sync_state: the row, created as idle when missing.
GetSyncState(st) == IF st.present THEN st ELSE FreshSyncState

\* str(e)[:500], on lengths.
Truncate(len) == Min(len, ErrLimit)

-----------------------------------------------------------------------------
(* The upstream APIs *)

\* Lengths of the messages of the errors the connectors raise.
ErrLens == {ErrLimit - 1, ErrLimit + 1}

Ok(ops) == [kind |-> "page", ops |-> ops, total_pages |-> 1, err |-> 0]
Err(len) == [kind |-> "error", ops |-> <<>>, total_pages |-> 1, err |-> len]

\* The operations with create id above c, oldest first, at most PageSize.
RECURSIVE VimaPageFrom(_, _, _)
VimaPageFrom(feed, c, n) ==
    IF n = 0 \/ c >= NVimaOps THEN <<>>
    ELSE <<VimaRaw(c + 1, feed[c + 1].ver, feed[c + 1].kind)>>
         \o VimaPageFrom(feed, c + 1, n - 1)

\* The page with the create id of its last operation missing.
StripCursor(ops) ==
    IF ops = <<>> THEN ops
    ELSE [ops EXCEPT ![Len(ops)].operation_create_id = NULL]

CursorNum(c) == IF c = NULL THEN 0 ELSE c

\* What GET /operation may answer to from_operation_create_id = c with the
\* date filter day (NULL: none; the operations of the feed were all created
\* FeedDay days ago): the page after c, a page the provider re-serves from
\* an earlier position, the page after c with the last create id missing,
\* or an error.
VimaResponses(feed, c, day) ==
    LET none == day # NULL /\ day # FeedDay
        honest == IF none THEN <<>> ELSE VimaPageFrom(feed, CursorNum(c), PageSize)
        pages == IF none THEN {<<>>}
                 ELSE {VimaPageFrom(feed, b, PageSize) : b \in 0..CursorNum(c)}
    IN  IF Adverse
        THEN {Ok(p) : p \in pages} \cup {Ok(StripCursor(honest))}
             \cup {Err(len) : len \in ErrLens}
        ELSE {Ok(honest)}

RECURSIVE PayShackSlice(_, _, _, _)
PayShackSlice(feed, product, from, to) ==
    IF from > to THEN <<>>
    ELSE <<PayShackRaw(IF product = "payout" THEN NPayin + from ELSE from,
                       feed[from].ver, feed[from].kind)>>
         \o PayShackSlice(feed, product, from + 1, to)

TotalPages(n) == (n + PageSize - 1) \div PageSize

\* What the PayShack fetch endpoints may answer for page number page: the
\* page with the true totalPages, the page with a totalPages that is always
\* one page ahead, or an error.
PayShackResponses(feed, product, page) ==
    LET n == Len(feed)
        honest == [kind |-> "page",
                   ops |-> PayShackSlice(feed, product, (page - 1) * PageSize + 1,
                                         Min(page * PageSize, n)),
                   total_pages |-> TotalPages(n),
                   err |-> 0]
    IN  IF Adverse
        THEN {honest, [honest EXCEPT !.total_pages = page + 1]}
             \cup {Err(len) : len \in ErrLens}
        ELSE {honest}

-----------------------------------------------------------------------------
(* Sync runs *)

\* A run is named by its source and its number among the runs of the source.
Slots == Sources \X (1..MaxRuns)

NoRun ==
    [ pc |-> "none", source |-> "vima", mode |-> "incremental",
      origin |-> "tick", cursor |-> NULL, batch_count |-> 0,
      day_offset |-> 0, page |-> 1, records_synced |-> 0, errors |-> 0,
      pending |-> <<>>, result |-> "none", force |-> FALSE,
      seen |-> <<>> ]

NewRun(source, mode, origin) ==
    [NoRun EXCEPT !.pc = "start", !.source = source, !.mode = mode,
                  !.origin = origin]

\* History: the run with the answer to its request (made at cursor or page
\* number at) appended to what it has seen.
Saw(run, at, kind, ops) ==
    [run EXCEPT !.seen = Append(@, [at |-> at, day |-> run.day_offset,
                                    phase |-> run.pc, kind |-> kind,
                                    ops |-> ops])]

\* Faulty variant: the coroutine does not return, it starts over.
StartsOver(run, result) ==
    [NoRun EXCEPT !.pc = "start", !.source = run.source, !.mode = run.mode,
                  !.origin = run.origin]

\* The run after its coroutine returned: its locals are gone.
Done(run, result) ==
    [NoRun EXCEPT !.pc = "done", !.source = run.source, !.mode = run.mode,
                  !.origin = run.origin, !.result = result]

Active(r) == runs[r].pc \notin {"none", "done", "dead"}

Used(s) == {r \in Slots : r[1] = s /\ runs[r].pc # "none"}

\* The next free slot of a source.
Free(s) == <<s, Cardinality(Used(s)) + 1>>

Updates(feed) == Cardinality({<<i, v>> \in (DOMAIN feed) \X (2..MaxVer) : feed[i].ver >= v})

\* Upstream updates so far.
TotalUpdates == Updates(vima_feed) + Updates(payin_feed) + Updates(payout_feed)

\* The feeds a behaviour may start from: which records are malformed.
\* No normalizer call and no reconciliation is under observation.
NormIdle == norm_in = <<>> /\ norm_out = <<>>
ReconIdle == recon_runs = <<>> /\ recon_results = {} /\ recon_tasks = <<>>

\* No connector call under observation.
NoCall == [pc |-> "none"]
ClientIdle == call = NoCall

\* JSON values of the messages: a string, a number.
Text(s) == [text |-> s]
Number(n) == [int |-> n]

SyncStarted(source) == [type |-> "sync_started", source |-> Text(source)]

\* (percent, computed from progress and total, is left out.)
SyncProgress(source, progress, total) ==
    [type |-> "sync_progress", source |-> Text(source),
     progress |-> Number(progress), total |-> Number(total)]

SyncCompleted(source, records_synced) ==
    [type |-> "sync_completed", source |-> Text(source),
     records_synced |-> Number(records_synced)]

\* broadcast_new_transactions(count, source), called with values.
NewTransactions(count, source) ==
    [type |-> "new_transactions", count |-> count, source |-> source]

\* The clients that may connect to /updates.
Conns == {"a", "b"}

\* No broadcast awaited by a run: msgs are the messages the run has still to
\* broadcast before it goes on at next; iterating, start, visited, sending
\* and disconnected are the loop of broadcast() over the connections for
\* the first of them; said are the messages the run has called broadcast()
\* with so far.
NoDelivery ==
    [msgs |-> <<>>, next |-> "none", iterating |-> FALSE, start |-> {},
     visited |-> {}, sending |-> "", disconnected |-> {}, said |-> <<>>]

\* A run goes on as after, having first to await the broadcasts of msgs.
Emit(r, after, msgs) ==
    IF Observed /\ msgs # <<>>
    THEN /\ runs' = [runs EXCEPT ![r] = [after EXCEPT !.pc = "broadcast"]]
         /\ delivery' = [delivery EXCEPT ![r] =
                [NoDelivery EXCEPT !.msgs = msgs, !.next = after.pc,
                                   !.said = Append(delivery[r].said, Head(msgs))]]
    ELSE /\ runs' = [runs EXCEPT ![r] = after]
         /\ UNCHANGED delivery

\* No client is connected to /updates and no run is broadcasting.
EventIdle == active_connections = {} /\ delivery = [r \in Slots |-> NoDelivery]

FeedOf(n, bad) == [i \in 1..n |-> [kind |-> IF i \in bad THEN "bad" ELSE "ok",
                                   ver |-> 1]]

VimaBadSets == {{1, 2}, {2}}
PayinBadSets == {{}, {1, 2}}

Init ==
    /\ focus \in Focuses
    /\ transactions = {}
    /\ sync_state = [s \in Sources |-> NoSyncState]
    /\ runs = [r \in Slots |-> NoRun]
    /\ \E bad \in (IF focus = "vima" THEN VimaBadSets
                   ELSE IF focus = "both" THEN {{1, 2}} ELSE {{}}) :
           vima_feed = FeedOf(NVimaOps, bad)
    /\ \E bad \in (IF focus = "payshack" THEN PayinBadSets
                   ELSE IF focus = "both" THEN {{1, 2}} ELSE {{}}) :
           payin_feed = FeedOf(NPayin, bad)
    /\ payout_feed = FeedOf(NPayout, {})
    /\ initial_done = FALSE
    /\ crashes = 0
    /\ last_upsert = <<>>
    /\ NormIdle
    /\ ReconIdle
    /\ ClientIdle
    /\ EventIdle

-----------------------------------------------------------------------------
(* Starting runs: scheduler, startup, manual trigger *)

\* An interval tick of the job "<source>_sync".  APScheduler starts the job
\* unless an instance of that job is still running (max_instances=1).
Tick(s) ==
    /\ InFocus(s)
    /\ Cardinality(Used(s)) < MaxRuns
    /\ ~\E r \in Slots : Active(r) /\ runs[r].origin = "tick" /\ runs[r].source = s
    /\ runs' = [runs EXCEPT ![Free(s)] = NewRun(s, "incremental", "tick")]
    /\ UNCHANGED <<transactions, sync_state, vima_feed, payin_feed, payout_feed,
                   initial_done, crashes, last_upsert, focus, normvars, reconvars, clientvars, eventvars>>

\* initial_sync: historical sync of both sources when the transactions table
\* is empty, incremental sync of both otherwise.
InitialSync ==
    /\ ~initial_done
    /\ \A s \in Sources : Cardinality(Used(s)) < MaxRuns
    /\ LET mode == IF transactions = {} THEN "historical" ELSE "incremental"
       IN  runs' = [runs EXCEPT ![Free("vima")] = NewRun("vima", mode, "initial"),
                                ![Free("payshack")] = NewRun("payshack", mode, "initial")]
    /\ initial_done' = TRUE
    /\ UNCHANGED <<transactions, sync_state, vima_feed, payin_feed, payout_feed,
                   crashes, last_upsert, focus, normvars, reconvars, clientvars, eventvars>>

\* trigger_sync's test per source: skip when the row says running and the
\* request does not force.
TriggerSkips(s, force) ==
    sync_state[s].present /\ sync_state[s].sync_status = "running" /\ ~force

\* POST /trigger for one source: a background task running the sync.
Trigger(s, force) ==
    /\ InFocus(s) /\ Adverse
    /\ Cardinality(Used(s)) < MaxRuns
    /\ IF TriggerSkips(s, force)
       THEN UNCHANGED runs
       ELSE runs' = [runs EXCEPT ![Free(s)] =
                        [NewRun(s, "incremental", "manual") EXCEPT !.force = force]]
    /\ UNCHANGED <<transactions, sync_state, vima_feed, payin_feed, payout_feed,
                   initial_done, crashes, last_upsert, focus, normvars, reconvars, clientvars, eventvars>>

\* The process terminates and is started again: its runs are abandoned with
\* whatever they had not committed; the database stays.
Crash ==
    /\ Adverse
    /\ crashes < MaxCrashes
    /\ \E r \in Slots : Active(r)
    /\ crashes' = crashes + 1
    /\ runs' = [r \in Slots |->
                  IF Active(r)
                  THEN [NoRun EXCEPT !.pc = "dead"]
                  ELSE runs[r]]
    /\ initial_done' = FALSE
    /\ UNCHANGED <<transactions, sync_state, vima_feed, payin_feed, payout_feed,
                   last_upsert, focus, normvars, reconvars, clientvars, eventvars>>

\* The provider moves a record to its next version.
Bump(feed, i) == [feed EXCEPT ![i].ver = feed[i].ver + 1]

UpstreamUpdate ==
    /\ Adverse
    /\ TotalUpdates < MaxUpdates
    /\ \/ \E i \in 1..NVimaOps :
            /\ InFocus("vima")
            /\ vima_feed[i].ver < MaxVer
            /\ vima_feed' = Bump(vima_feed, i)
            /\ UNCHANGED <<payin_feed, payout_feed>>
       \/ \E i \in 1..NPayin :
            /\ InFocus("payshack")
            /\ payin_feed[i].ver < MaxVer
            /\ payin_feed' = Bump(payin_feed, i)
            /\ UNCHANGED <<vima_feed, payout_feed>>
       \/ \E i \in 1..NPayout :
            /\ InFocus("payshack")
            /\ payout_feed[i].ver < MaxVer
            /\ payout_feed' = Bump(payout_feed, i)
            /\ UNCHANGED <<vima_feed, payin_feed>>
    /\ UNCHANGED <<transactions, sync_state, runs, initial_done, crashes,
                   last_upsert, focus, normvars, reconvars, clientvars, eventvars>>

-----------------------------------------------------------------------------
(* VimaSyncService.sync: incremental run *)

Last(seq) == seq[Len(seq)]

\* except Exception in sync / historical_sync: mark failed, commit, return.
VimaFailState(st, len) ==
    VimaUpdateSyncState(st, [sync_status |-> "failed",
                             error_message |-> Truncate(len)])

\* Faulty variant: the create id of the page's last operation, normalized
\* or not.
RawLastCursor(ops, normalized) == Last(ops).operation_create_id

\* The cursor a page's commit writes to sync_state: that of the last
\* normalized record.
VimaLastCursor(ops, normalized) == Last(normalized).source_create_cursor

\* The sync_state write that follows the upsert of a page.
VimaCursorState(st, ops, normalized, synced) ==
    IF VimaLastCursor(ops, normalized) # NULL
    THEN VimaUpdateSyncState(st, [last_create_cursor |-> VimaLastCursor(ops, normalized),
                                  records_synced |-> synced])
    ELSE st

\* Faulty variant of the generator's test: it never stops on a page.
NeverStops(ops, cursor) == FALSE

\* get_all_operations stops after a page whose last operation has no create
\* id or the one the page was asked from.
VimaStops(ops, cursor) ==
    Last(ops).operation_create_id = NULL \/ Last(ops).operation_create_id = cursor

\* Entry of sync(): mark running (if the row exists), commit, broadcast
\* sync_started, then read the row, creating it when missing, for the
\* cursor.  With the broadcasts under observation the read is a step of its
\* own, VimaReadCursor.
VimaStart(r) ==
    /\ InFocus("vima")
    /\ runs[r].pc = "start" /\ runs[r].source = "vima"
    /\ runs[r].mode = "incremental"
    /\ LET marked == VimaUpdateSyncState(sync_state["vima"],
                         [sync_status |-> "running", error_message |-> NULL])
           st == IF Observed THEN marked ELSE GetSyncState(marked)
       IN  /\ sync_state' = [sync_state EXCEPT !["vima"] = st]
           /\ Emit(r, [runs[r] EXCEPT !.pc = IF Observed THEN "cursor" ELSE "fetch",
                                      !.cursor = st.last_create_cursor],
                   <<SyncStarted("vima")>>)
    /\ UNCHANGED <<transactions, vima_feed, payin_feed, payout_feed,
                   initial_done, crashes, last_upsert, focus, normvars, reconvars, clientvars, active_connections>>

\* _get_sync_state of sync(), after the broadcast of sync_started.
VimaReadCursor(r) ==
    /\ InFocus("vima")
    /\ runs[r].pc = "cursor"
    /\ LET st == GetSyncState(sync_state["vima"])
       IN  /\ sync_state' = [sync_state EXCEPT !["vima"] = st]
           /\ runs' = [runs EXCEPT ![r].pc = "fetch",
                                   ![r].cursor = st.last_create_cursor]
    /\ UNCHANGED <<transactions, vima_feed, payin_feed, payout_feed,
                   initial_done, crashes, last_upsert, focus, normvars, reconvars, clientvars, eventvars>>

\* The run ends in the except branch with an error message of length len.
VimaFail(r, len) ==
    /\ sync_state' = [sync_state EXCEPT !["vima"] = VimaFailState(@, len)]
    /\ runs' = [runs EXCEPT ![r] = Done(@, "failed")]
    /\ UNCHANGED <<transactions, last_upsert, delivery>>

\* A page of the run: upsert of what normalizes, cursor write, commit,
\* broadcast of sync_progress; then the generator's decision to go on.
VimaPage(r, ops) ==
    LET run == runs[r]
        normalized == VimaNormalizeBatch(ops)
        synced == run.records_synced + Len(normalized)
        stop == VimaStops(ops, run.cursor)
        count == IF stop THEN run.batch_count ELSE run.batch_count + 1
    IN  /\ IF normalized # <<>>
           THEN /\ transactions' = UpsertTransactions(transactions, normalized, Now(r))
                /\ sync_state' = [sync_state EXCEPT !["vima"] =
                                     VimaCursorState(@, ops, normalized, synced)]
                /\ last_upsert' = normalized
           ELSE UNCHANGED <<transactions, sync_state, last_upsert>>
        /\ Emit(r, [Saw(run, run.cursor, "page", ops) EXCEPT
                         !.records_synced = synced,
                         !.cursor = IF stop THEN run.cursor
                                    ELSE Last(ops).operation_create_id,
                         !.batch_count = count,
                         !.pc = IF stop \/ count >= vima_max_batches
                                THEN "finish" ELSE "fetch"],
                IF normalized # <<>>
                THEN <<SyncProgress("vima", synced, synced)>> ELSE <<>>)

\* One turn of the loop over get_all_operations: request, then the page, the
\* end of the feed, or an error (of the connector, or of the upsert).
VimaFetch(r) ==
    /\ InFocus("vima")
    /\ runs[r].pc = "fetch"
    /\ \E resp \in VimaResponses(vima_feed, runs[r].cursor, NULL) :
         \/ /\ resp.kind = "error"
            /\ VimaFail(r, resp.err)
         \/ /\ resp.kind = "page" /\ resp.ops = <<>>
            /\ runs' = [runs EXCEPT ![r] =
                           [Saw(@, @.cursor, "page", <<>>) EXCEPT !.pc = "finish"]]
            /\ UNCHANGED <<transactions, sync_state, last_upsert, delivery>>
         \/ /\ resp.kind = "page" /\ resp.ops # <<>>
            /\ VimaPage(r, resp.ops)
         \/ /\ resp.kind = "page" /\ Adverse
            /\ VimaNormalizeBatch(resp.ops) # <<>>
            /\ \E len \in ErrLens : VimaFail(r, len)
    /\ UNCHANGED <<vima_feed, payin_feed, payout_feed, initial_done, crashes, focus, normvars, reconvars, clientvars, active_connections>>

\* After the loop: mark idle with the sync times, commit, broadcast
\* sync_completed and, when records were synced, new_transactions.
VimaFinish(r) ==
    /\ InFocus("vima")
    /\ runs[r].pc = "finish" /\ runs[r].source = "vima"
    /\ runs[r].mode = "incremental"
    /\ sync_state' = [sync_state EXCEPT !["vima"] =
           VimaUpdateSyncState(@, [sync_status |-> "idle",
                                   last_sync_at |-> Now(r),
                                   last_successful_sync |-> Now(r),
                                   records_synced |-> runs[r].records_synced])]
    /\ Emit(r, Done(runs[r], "success"),
            <<SyncCompleted("vima", runs[r].records_synced)>>
            \o (IF runs[r].records_synced > 0
                THEN <<NewTransactions(Number(runs[r].records_synced), Text("vima"))>>
                ELSE <<>>))
    /\ UNCHANGED <<transactions, vima_feed, payin_feed, payout_feed,
                   initial_done, crashes, last_upsert, focus, normvars, reconvars, clientvars, active_connections>>

-----------------------------------------------------------------------------
(* VimaSyncService.historical_sync: one date after the other *)

\* Entry of historical_sync(): mark running (if the row exists), commit.
\* Nothing here creates the row.
VimaHistStart(r) ==
    /\ InFocus("vima")
    /\ runs[r].pc = "start" /\ runs[r].source = "vima"
    /\ runs[r].mode = "historical"
    /\ sync_state' = [sync_state EXCEPT !["vima"] =
           VimaUpdateSyncState(@, [sync_status |-> "running",
                                   error_message |-> NULL])]
    /\ Emit(r, [runs[r] EXCEPT !.pc = "hfetch", !.day_offset = initial_sync_days],
            <<SyncStarted("vima")>>)
    /\ UNCHANGED <<transactions, vima_feed, payin_feed, payout_feed,
                   initial_done, crashes, last_upsert, focus, normvars, reconvars, clientvars, active_connections>>

\* Faulty variant: the next date is paged from where the last one ended.
KeepsPosition(run) ==
    IF run.day_offset = 0
    THEN [run EXCEPT !.pc = "finish", !.batch_count = 0]
    ELSE [run EXCEPT !.day_offset = run.day_offset - 1, !.batch_count = 0]

\* The run after _sync_date returned for its current date: the next date,
\* or the end of the loop over the dates.
NextDate(run) ==
    IF run.day_offset = 0
    THEN [run EXCEPT !.pc = "finish", !.cursor = NULL, !.batch_count = 0]
    ELSE [run EXCEPT !.day_offset = run.day_offset - 1, !.cursor = NULL,
                     !.batch_count = 0]

\* _sync_date goes on to the next page of the date only when the last
\* normalized record carries a create id other than the one asked from.
VimaHistContinues(normalized, cursor) ==
    /\ normalized # <<>>
    /\ Last(normalized).source_create_cursor # NULL
    /\ Last(normalized).source_create_cursor # cursor

\* The broadcast of historical_sync after _sync_date returned for the date
\* of the run.
DateDone(run) ==
    <<SyncProgress("vima", initial_sync_days - run.day_offset + 1,
                   initial_sync_days + 1)>>

\* A page of a date in _sync_date: the upsert is executed in the session's
\* transaction; it is committed only when pagination goes on.
VimaHistPage(r, ops) ==
    LET run == runs[r]
        normalized == VimaNormalizeBatch(ops)
        executed == run.pending \o normalized
        after == [Saw(run, run.cursor, "page", ops) EXCEPT
                    !.records_synced = run.records_synced + Len(normalized)]
    IN  IF VimaHistContinues(normalized, run.cursor)
        THEN /\ transactions' = UpsertTransactions(transactions, executed, Now(r))
             /\ last_upsert' = executed
             /\ LET paged == [after EXCEPT
                                   !.pending = <<>>,
                                   !.cursor = Last(normalized).source_create_cursor,
                                   !.batch_count = run.batch_count + 1]
                IN  IF paged.batch_count < hist_max_batches
                    THEN Emit(r, paged, <<>>)
                    ELSE Emit(r, NextDate(paged), DateDone(run))
        ELSE /\ Emit(r, NextDate([after EXCEPT !.pending = executed]), DateDone(run))
             /\ UNCHANGED <<transactions, last_upsert>>

\* One turn of the loop of _sync_date: request, then the page; on an empty
\* page or an error (caught and logged) the date is over.
VimaHistFetch(r) ==
    /\ InFocus("vima")
    /\ runs[r].pc = "hfetch"
    /\ \E resp \in VimaResponses(vima_feed, runs[r].cursor, runs[r].day_offset) :
         \/ /\ resp.kind = "error"
            /\ Emit(r, NextDate(Saw(runs[r], runs[r].cursor, "error", <<>>)),
                    DateDone(runs[r]))
            /\ UNCHANGED <<transactions, last_upsert>>
         \/ /\ resp.kind = "page" /\ resp.ops = <<>>
            /\ Emit(r, NextDate(Saw(runs[r], runs[r].cursor, "page", <<>>)),
                    DateDone(runs[r]))
            /\ UNCHANGED <<transactions, last_upsert>>
         \/ /\ resp.kind = "page" /\ resp.ops # <<>>
            /\ VimaHistPage(r, resp.ops)
    /\ UNCHANGED <<sync_state, vima_feed, payin_feed, payout_feed, initial_done,
                   crashes, focus, normvars, reconvars, clientvars, active_connections>>

\* After the dates: mark idle with the sync times, commit (which also
\* commits what _sync_date left uncommitted), broadcast sync_completed.
VimaHistFinish(r) ==
    /\ InFocus("vima")
    /\ runs[r].pc = "finish" /\ runs[r].source = "vima"
    /\ runs[r].mode = "historical"
    /\ sync_state' = [sync_state EXCEPT !["vima"] =
           VimaUpdateSyncState(@, [sync_status |-> "idle",
                                   last_sync_at |-> Now(r),
                                   last_successful_sync |-> Now(r),
                                   records_synced |-> runs[r].records_synced])]
    /\ transactions' = UpsertTransactions(transactions, runs[r].pending, Now(r))
    /\ last_upsert' = IF runs[r].pending = <<>> THEN last_upsert ELSE runs[r].pending
    /\ Emit(r, Done(runs[r], "success"),
            <<SyncCompleted("vima", runs[r].records_synced)>>)
    /\ UNCHANGED <<vima_feed, payin_feed, payout_feed, initial_done, crashes, focus, normvars, reconvars, clientvars, active_connections>>

-----------------------------------------------------------------------------
(* PayShackSyncService.sync (historical_sync is sync(full_sync=True)) *)

PayShackFailState(st, len) ==
    PayShackUpdateSyncState(st, [sync_status |-> "failed",
                                 error_message |-> Truncate(len)])

\* Entry of sync(): mark running (adding the row when missing), commit.
PayShackStart(r) ==
    /\ InFocus("payshack")
    /\ runs[r].pc = "start" /\ runs[r].source = "payshack"
    /\ sync_state' = [sync_state EXCEPT !["payshack"] =
           PayShackUpdateSyncState(@, [sync_status |-> "running",
                                       error_message |-> NULL])]
    /\ Emit(r, [runs[r] EXCEPT !.pc = "payin", !.page = 1], <<SyncStarted("payshack")>>)
    /\ UNCHANGED <<transactions, vima_feed, payin_feed, payout_feed,
                   initial_done, crashes, last_upsert, focus, normvars, reconvars, clientvars, active_connections>>

\* The run after the loop of _sync_payin_transactions or of
\* _sync_payout_transactions ended.
NextPhase(run) ==
    IF run.pc = "payin" THEN [run EXCEPT !.pc = "payout", !.page = 1]
    ELSE [run EXCEPT !.pc = "finish", !.page = 1]

\* Faulty variant: a ceiling no run gets to.
NoCeiling(product) == payin_max_pages + payout_max_pages + PageSize

MaxPages(product) == IF product = "payin" THEN payin_max_pages ELSE payout_max_pages

RECURSIVE Raising(_)
Raising(txns) ==
    IF txns = <<>> THEN 0
    ELSE (IF PayShackNormalizeRaises(Head(txns)) THEN 1 ELSE 0) + Raising(Tail(txns))

\* except PayShackAPIError in the page loops: the error is appended to the
\* run's error list and the loop is left.
PayShackPageError(run) ==
    NextPhase([Saw(run, run.page, "error", <<>>) EXCEPT !.errors = run.errors + 1])

\* A page of pay-in or pay-out transactions: upsert of what normalizes,
\* commit, broadcast of new_transactions by _upsert_transactions and, for
\* pay-in, of sync_progress; then the test on totalPages.
PayShackPage(r, resp) ==
    LET run == runs[r]
        normalized == PayShackNormalizeBatch(resp.ops, run.pc)
        after == [Saw(run, run.page, "page", resp.ops) EXCEPT
                             !.errors = run.errors + Raising(resp.ops),
                             !.records_synced = run.records_synced + Len(normalized)]
    IN  /\ IF normalized # <<>>
           THEN /\ transactions' = UpsertTransactions(transactions, normalized, Now(r))
                /\ last_upsert' = normalized
           ELSE UNCHANGED <<transactions, last_upsert>>
        /\ Emit(r, IF run.page >= resp.total_pages \/ run.page + 1 > MaxPages(run.pc)
                   THEN NextPhase(after)
                   ELSE [after EXCEPT !.page = run.page + 1],
                (IF normalized # <<>>
                 THEN <<NewTransactions(Text("payshack"), Number(Len(normalized)))>>
                 ELSE <<>>)
                \o (IF run.pc = "payin"
                    THEN <<SyncProgress("payshack", run.page, resp.total_pages)>>
                    ELSE <<>>))
        /\ UNCHANGED sync_state

\* The run ends in an except branch of sync() with a message of length len.
PayShackFail(r, len) ==
    /\ sync_state' = [sync_state EXCEPT !["payshack"] = PayShackFailState(@, len)]
    /\ runs' = [runs EXCEPT ![r] = Done(@, "failed")]
    /\ UNCHANGED <<transactions, last_upsert, delivery>>

\* One turn of a page loop: request, then the page, the end of the list, an
\* API error (caught in the loop), or an error of the upsert (not caught
\* there).
PayShackFetch(r) ==
    /\ InFocus("payshack")
    /\ runs[r].pc \in {"payin", "payout"}
    /\ \E resp \in PayShackResponses(IF runs[r].pc = "payin" THEN payin_feed
                                     ELSE payout_feed, runs[r].pc, runs[r].page) :
         \/ /\ resp.kind = "error"
            /\ runs' = [runs EXCEPT ![r] = PayShackPageError(@)]
            /\ UNCHANGED <<transactions, sync_state, last_upsert, delivery>>
         \/ /\ resp.kind = "page" /\ resp.ops = <<>>
            /\ runs' = [runs EXCEPT ![r] = NextPhase(Saw(@, @.page, "page", <<>>))]
            /\ UNCHANGED <<transactions, sync_state, last_upsert, delivery>>
         \/ /\ resp.kind = "page" /\ resp.ops # <<>>
            /\ PayShackPage(r, resp)
         \/ /\ resp.kind = "page" /\ Adverse
            /\ PayShackNormalizeBatch(resp.ops, runs[r].pc) # <<>>
            /\ \E len \in ErrLens : PayShackFail(r, len)
    /\ UNCHANGED <<vima_feed, payin_feed, payout_feed, initial_done, crashes, focus, normvars, reconvars, clientvars, active_connections>>

\* After both loops: mark idle with the sync time, commit, broadcast
\* sync_completed.
PayShackFinish(r) ==
    /\ InFocus("payshack")
    /\ runs[r].pc = "finish" /\ runs[r].source = "payshack"
    /\ sync_state' = [sync_state EXCEPT !["payshack"] =
           PayShackUpdateSyncState(@, [sync_status |-> "idle",
                                       last_sync_at |-> Now(r),
                                       error_message |-> NULL])]
    /\ Emit(r, Done(runs[r], "success"),
            <<SyncCompleted("payshack", runs[r].records_synced)>>)
    /\ UNCHANGED <<transactions, vima_feed, payin_feed, payout_feed,
                   initial_done, crashes, last_upsert, focus, normvars, reconvars, clientvars, active_connections>>

-----------------------------------------------------------------------------

Next ==
    \/ \E s \in Sources : Tick(s)
    \/ InitialSync
    \/ \E s \in Sources, force \in BOOLEAN : Trigger(s, force)
    \/ Crash
    \/ UpstreamUpdate
    \/ \E r \in Slots : VimaStart(r)
    \/ \E r \in Slots : VimaFetch(r)
    \/ \E r \in Slots : VimaFinish(r)
    \/ \E r \in Slots : VimaHistStart(r)
    \/ \E r \in Slots : VimaHistFetch(r)
    \/ \E r \in Slots : VimaHistFinish(r)
    \/ \E r \in Slots : PayShackStart(r)
    \/ \E r \in Slots : PayShackFetch(r)
    \/ \E r \in Slots : PayShackFinish(r)

Spec == Init /\ [][Next]_vars

-----------------------------------------------------------------------------
(* The normalizers on their own: raw records in, canonical records out *)

\* The record d with key set to value.
Put(d, key, value) ==
    [k \in DOMAIN d \cup {key} |-> IF k = key THEN value ELSE d[k]]

\* A key that the record does not carry.
Absent == "<absent>"
AbsentNum == [absent |-> TRUE]

PutText(d, key, text) == IF text = Absent THEN d ELSE Put(d, key, text)
PutNum(d, key, num) == IF num = AbsentNum THEN d ELSE Put(d, key, num)

StatusTexts == UNION {{w[1], w[2], w[3]} : w \in Spellings} \cup {"", NONE, Absent}

\* Records that differ in their status fields only.
VimaStatusInputs ==
    { [provider |-> "vima",
       raw |-> PutText(PutText([operation_id |-> 1,
                                complete_amount |-> Num(100, 0),
                                operation_created_at |-> 1],
                               "payment_status", ps), "current_status", cs)] :
      ps \in StatusTexts, cs \in StatusTexts }

PayinStatusInputs ==
    { [provider |-> "payin",
       raw |-> PutText([txnId |-> 1, amount |-> Num(100, 0), createdAt |-> 1],
                       "txnStatus", ts)] : ts \in StatusTexts }

PayoutStatusInputs ==
    { [provider |-> "payout",
       raw |-> PutText(PutText([txnId |-> 1, amount |-> Num(100, 0), createdAt |-> 1],
                               "txnStatus", ts), "status", st)] :
      ts \in StatusTexts, st \in StatusTexts }

\* Vima records over the shapes of the amount: complete_amount missing or
\* null, or a number (0, 1, 1.0, 1.5, 1.25); create_params missing, null,
\* or with a count of minor units.
AmountNums == {AbsentNum, NoneNum, Num(0, 0), Num(100, 0), Num(100, 1),
               Num(150, 1), Num(125, 2)}
MinorValues == {{}, {NULL}, {0}, {100}, {150}, {125}}

VimaAmountInputs ==
    { [provider |-> "vima",
       raw |-> LET base == PutNum([operation_id |-> 1, payment_status |-> "success",
                                   operation_created_at |-> 1],
                                  "complete_amount", num)
               IN  IF minor = {} THEN base
                   ELSE Put(base, "create_params", CHOOSE v \in minor : TRUE)] :
      num \in AmountNums, minor \in MinorValues }

\* Records over the values that go into the dedup key, and over a status
\* and an update time that do not.
VimaKeyRecords ==
    { [provider |-> "vima",
       raw |-> LET base == PutText(PutNum([operation_id |-> id,
                                           payment_status |-> st,
                                           operation_modified_at |-> IF st = "success" THEN 2 ELSE 1,
                                           operation_created_at |-> at],
                                          "complete_amount", num),
                                   "complete_currency", cur)
               IN  IF minor = {} THEN base
                   ELSE Put(base, "create_params", CHOOSE v \in minor : TRUE)] :
      id \in {1, 2}, st \in {"success", "in_process"}, at \in {NULL, 1},
      num \in {AbsentNum, Num(100, 0), Num(100, 1), Num(150, 1)},
      cur \in {Absent, "USD"}, minor \in {{}, {100}, {150}} }

PayShackKeyRecords ==
    { [provider |-> product,
       raw |-> [txnId |-> id, amount |-> num, txnStatus |-> st,
                modifiedAt |-> IF st = "SUCCESS" THEN 2 ELSE 1,
                createdAt |-> at]] :
      product \in {"payin", "payout"}, id \in {1, 2}, st \in {"SUCCESS", "Initiated"},
      at \in {NULL, 1}, num \in {Num(100, 0), Num(100, 1), Num(150, 1)} }

KeyRecords == VimaKeyRecords \cup PayShackKeyRecords

\* What is handed to the normalizers in one behaviour: one record, or two
\* records one after the other.
NormInputs ==
    {<<x>> : x \in VimaStatusInputs \cup PayinStatusInputs \cup PayoutStatusInputs
                   \cup VimaAmountInputs}
    \cup {<<x, y>> : x \in KeyRecords, y \in KeyRecords}

\* The sync services are not running.
SyncIdle ==
    /\ focus = "none"
    /\ transactions = {}
    /\ sync_state = [s \in Sources |-> NoSyncState]
    /\ runs = [r \in Slots |-> NoRun]
    /\ vima_feed = <<>> /\ payin_feed = <<>> /\ payout_feed = <<>>
    /\ initial_done = FALSE
    /\ crashes = 0
    /\ last_upsert = <<>>

NormInit ==
    /\ SyncIdle
    /\ ReconIdle
    /\ ClientIdle
    /\ EventIdle
    /\ norm_in \in NormInputs
    /\ norm_out = <<>>

\* normalize raised.
Raised == [raised |-> TRUE]

\* The record normalize is called on next.
NextIn == norm_in[Len(norm_out) + 1]

\* VimaNormalizer.normalize(raw)
NormalizeVima ==
    /\ Len(norm_out) < Len(norm_in)
    /\ NextIn.provider = "vima"
    /\ norm_out' = Append(norm_out, IF VimaNormalizeRaises(NextIn.raw) THEN Raised
                                    ELSE VimaNormalize(NextIn.raw))
    /\ UNCHANGED <<syncvars, reconvars, clientvars, eventvars, norm_in>>

\* PayShackNormalizer.normalize_payin(raw)
NormalizePayin ==
    /\ Len(norm_out) < Len(norm_in)
    /\ NextIn.provider = "payin"
    /\ norm_out' = Append(norm_out, IF PayShackNormalizeRaises(NextIn.raw) THEN Raised
                                    ELSE PayShackNormalize(NextIn.raw, "payin"))
    /\ UNCHANGED <<syncvars, reconvars, clientvars, eventvars, norm_in>>

\* PayShackNormalizer.normalize_payout(raw)
NormalizePayout ==
    /\ Len(norm_out) < Len(norm_in)
    /\ NextIn.provider = "payout"
    /\ norm_out' = Append(norm_out, IF PayShackNormalizeRaises(NextIn.raw) THEN Raised
                                    ELSE PayShackNormalize(NextIn.raw, "payout"))
    /\ UNCHANGED <<syncvars, reconvars, clientvars, eventvars, norm_in>>

NormNext == NormalizeVima \/ NormalizePayin \/ NormalizePayout

NormSpec == NormInit /\ [][NormNext]_vars

-----------------------------------------------------------------------------
(* ReconciliationService and the route that triggers it *)

\* No transaction: vima_txn_id / payshack_txn_id of a missing_* result.
NoTxn == <<>>

Abs(x) == IF x < 0 THEN -x ELSE x
Max(a, b) == IF a > b THEN a ELSE b

\* The enumerations of a finite set: the orders in which a SELECT without
\* ORDER BY may return its rows.
Orders(S) ==
    {s \in [1..Cardinality(S) -> S] : \A i, j \in DOMAIN s : i # j => s[i] # s[j]}

\* The rows of a source whatever their date.
LoadAllDates(source, date) == {row \in transactions : row.source = source}

\* _load_transactions: the rows of a source created on the date (creation
\* times of the rows reconciled are counted in days).
LoadTransactions(source, date) ==
    {row \in transactions : row.source = source /\ row.created_at = date}

\* The key under which the index holds a PayShack row: order_id, else
\* client_operation_id; NULL when it has neither.
IndexKey(txn) == IF txn.order_id # NULL THEN txn.order_id ELSE txn.client_operation_id

\* payshack_index after the loop over payshack_txns from a given index: a
\* later row of a key replaces an earlier one.
RECURSIVE IndexFrom(_, _)
IndexFrom(index, payshack_txns) ==
    IF payshack_txns = <<>> THEN index
    ELSE LET txn == Head(payshack_txns)
         IN  IndexFrom(IF IndexKey(txn) = NULL THEN index
                       ELSE Put(index, IndexKey(txn), txn), Tail(payshack_txns))

PayShackIndex(payshack_txns) == IndexFrom(<<>>, payshack_txns)

\* amount_diff >= tolerance.
ReachesTolerance(vima_amount, payshack_amount) ==
    Abs(vima_amount - payshack_amount) * 1000
        >= Max(AMOUNT_TOLERANCE * 1000, vima_amount * AMOUNT_TOLERANCE_PERCENT)

\* amount_diff > max(AMOUNT_TOLERANCE, vima.amount * AMOUNT_TOLERANCE_PERCENT),
\* amounts in hundredths and both sides multiplied by 1000.
ExceedsTolerance(vima_amount, payshack_amount) ==
    Abs(vima_amount - payshack_amount) * 1000
        > Max(AMOUNT_TOLERANCE * 1000, vima_amount * AMOUNT_TOLERANCE_PERCENT)

\* The list with the status compared first.
StatusFirst(vima, payshack) ==
    (IF vima.status # payshack.status THEN <<"status">> ELSE <<>>)
    \o (IF ExceedsTolerance(vima.amount, payshack.amount) THEN <<"amount">> ELSE <<>>)

\* The list "discrepancies" of _compare_transactions.
Discrepancies(vima, payshack) ==
    (IF ExceedsTolerance(vima.amount, payshack.amount) THEN <<"amount">> ELSE <<>>)
    \o (IF vima.status # payshack.status THEN <<"status">> ELSE <<>>)

\* _compare_transactions
CompareTransactions(run_id, recon_date, vima, payshack) ==
    LET discrepancies == Discrepancies(vima, payshack)
    IN  [ recon_run_id |-> run_id,
          recon_date |-> recon_date,
          vima_txn_id |-> vima.id,
          payshack_txn_id |-> payshack.id,
          client_operation_id |-> vima.client_operation_id,
          match_status |-> IF discrepancies # <<>> THEN "discrepancy" ELSE "matched",
          discrepancy_type |-> IF discrepancies # <<>> THEN discrepancies[1] ELSE NONE,
          vima_amount |-> vima.amount,
          payshack_amount |-> payshack.amount,
          amount_diff |-> IF ExceedsTolerance(vima.amount, payshack.amount)
                          THEN Abs(vima.amount - payshack.amount) ELSE NULL,
          vima_status |-> vima.status,
          payshack_status |-> payshack.status ]

MissingPayshack(run_id, recon_date, vima) ==
    [ recon_run_id |-> run_id,
      recon_date |-> recon_date,
      vima_txn_id |-> vima.id,
      payshack_txn_id |-> NoTxn,
      client_operation_id |-> vima.client_operation_id,
      match_status |-> "missing_payshack",
      discrepancy_type |-> "missing",
      vima_amount |-> vima.amount,
      payshack_amount |-> NULL,
      amount_diff |-> NULL,
      vima_status |-> vima.status,
      payshack_status |-> NONE ]

MissingVima(run_id, recon_date, payshack) ==
    [ recon_run_id |-> run_id,
      recon_date |-> recon_date,
      vima_txn_id |-> NoTxn,
      payshack_txn_id |-> payshack.id,
      client_operation_id |-> IndexKey(payshack),
      match_status |-> "missing_vima",
      discrepancy_type |-> "missing",
      vima_amount |-> NULL,
      payshack_amount |-> payshack.amount,
      amount_diff |-> NULL,
      vima_status |-> NONE,
      payshack_status |-> payshack.status ]

\* The loop over vima_txns: a row without key is passed over, a row whose
\* key the index has is compared, any other row is missing in PayShack.
RECURSIVE MatchVima(_, _, _, _)
MatchVima(run_id, recon_date, vima_txns, index) ==
    IF vima_txns = <<>> THEN <<>>
    ELSE LET vima == Head(vima_txns)
             matching_key == vima.client_operation_id
             rest == MatchVima(run_id, recon_date, Tail(vima_txns), index)
         IN  IF matching_key = NULL THEN rest
             ELSE IF matching_key \in DOMAIN index
                  THEN <<CompareTransactions(run_id, recon_date, vima, index[matching_key])>>
                       \o rest
                  ELSE <<MissingPayshack(run_id, recon_date, vima)>> \o rest

\* The loop over payshack_txns: every row that was not compared is missing
\* in Vima.
RECURSIVE UnmatchedPayshack(_, _, _, _)
UnmatchedPayshack(run_id, recon_date, payshack_txns, matched_payshack_ids) ==
    IF payshack_txns = <<>> THEN <<>>
    ELSE LET payshack == Head(payshack_txns)
             rest == UnmatchedPayshack(run_id, recon_date, Tail(payshack_txns),
                                       matched_payshack_ids)
         IN  IF payshack.id \notin matched_payshack_ids
             THEN <<MissingVima(run_id, recon_date, payshack)>> \o rest
             ELSE rest

\* The list "results" of run_for_date for the rows as loaded.
Results(run_id, recon_date, vima_txns, payshack_txns) ==
    LET compared == MatchVima(run_id, recon_date, vima_txns, PayShackIndex(payshack_txns))
        matched_payshack_ids ==
            {compared[i].payshack_txn_id : i \in DOMAIN compared} \ {NoTxn}
    IN  compared \o UnmatchedPayshack(run_id, recon_date, payshack_txns,
                                      matched_payshack_ids)

\* The length of the list, whatever the status.
CountAll(results, status) == Len(results)

\* sum(1 for r in results if r.match_status == status)
CountStatus(results, status) ==
    Cardinality({i \in DOMAIN results : results[i].match_status = status})

\* ReconciliationRun(recon_date=..., status="running") with the column
\* defaults.
NewReconRun(recon_date) ==
    [ recon_date |-> recon_date,
      status |-> "running",
      total_vima |-> 0,
      total_payshack |-> 0,
      matched |-> 0,
      discrepancies |-> 0,
      missing_vima |-> 0,
      missing_payshack |-> 0,
      error_message |-> NULL ]

\* The summary with the totals of the two sources exchanged.
SwappedTotals(run, results, vima_txns, payshack_txns) ==
    [run EXCEPT !.total_vima = Len(payshack_txns),
                !.total_payshack = Len(vima_txns),
                !.matched = CountStatus(results, "matched"),
                !.discrepancies = CountStatus(results, "discrepancy"),
                !.missing_vima = CountStatus(results, "missing_vima"),
                !.missing_payshack = CountStatus(results, "missing_payshack"),
                !.status = "completed"]

\* The run row with the summary of a pass, completed.
Summarized(run, results, vima_txns, payshack_txns) ==
    [run EXCEPT !.total_vima = Len(vima_txns),
                !.total_payshack = Len(payshack_txns),
                !.matched = CountStatus(results, "matched"),
                !.discrepancies = CountStatus(results, "discrepancy"),
                !.missing_vima = CountStatus(results, "missing_vima"),
                !.missing_payshack = CountStatus(results, "missing_payshack"),
                !.status = "completed"]

\* The rows session.add_all(results) inserts: every result under a fresh
\* primary key (named after the run and the place in the list).
ResultRows(run_id, results) ==
    {[id |-> <<run_id, i>>, result |-> results[i]] : i \in DOMAIN results}

\* The most recent run of the date.
LatestRunOf(task) ==
    CHOOSE i \in DOMAIN recon_runs :
        /\ recon_runs[i].recon_date = task.date
        /\ \A j \in DOMAIN recon_runs : recon_runs[j].recon_date = task.date => j <= i

\* The run row a pass writes to: the one it created.
RunOf(task) == task.run

\* The places of the background tasks in recon_tasks.
TaskIds == 1..MaxReconTasks

\* The dates reconciliation is asked for.
ReconDates == {1, 2}

\* How many background tasks a behaviour has: several over a table of at
\* most two rows, one over a larger table.
TaskBudget == IF Cardinality(transactions) <= 2 THEN MaxReconTasks ELSE 1

\* POST /reconciliation/run: refused (400) when a run of the date is running
\* and force is not set; scalar_one_or_none raises when two are running;
\* otherwise run_reconciliation_for_date is queued as a background task.
\* The task remembers the force flag of its request for the record only.
ReconTrigger(date, force) ==
    /\ Len(recon_tasks) < TaskBudget
    /\ LET existing_run == {i \in DOMAIN recon_runs :
                              /\ recon_runs[i].recon_date = date
                              /\ recon_runs[i].status = "running"}
       IN  /\ Cardinality(existing_run) <= 1
           /\ ~(existing_run # {} /\ ~force)
    /\ recon_tasks' = Append(recon_tasks, [pc |-> "queued", date |-> date,
                                           force |-> force, run |-> NULL])
    /\ UNCHANGED <<syncvars, normvars, clientvars, eventvars, recon_runs, recon_results>>

\* run_for_date up to the try: the run row is added and committed.
ReconCreate(t) ==
    /\ t \in DOMAIN recon_tasks
    /\ recon_tasks[t].pc = "queued"
    /\ recon_runs' = Append(recon_runs, NewReconRun(recon_tasks[t].date))
    /\ recon_tasks' = [recon_tasks EXCEPT ![t].pc = "running",
                                          ![t].run = Len(recon_runs) + 1]
    /\ UNCHANGED <<syncvars, normvars, clientvars, eventvars, recon_results>>

\* The try block of run_for_date when nothing raises: load, match, add the
\* results, summarize, commit.
ReconPass(t) ==
    /\ t \in DOMAIN recon_tasks
    /\ recon_tasks[t].pc = "running"
    /\ LET task == recon_tasks[t]
       IN  \E vima_txns \in Orders(LoadTransactions("vima", task.date)),
              payshack_txns \in Orders(LoadTransactions("payshack", task.date)) :
             LET results == Results(RunOf(task), task.date, vima_txns, payshack_txns)
             IN  /\ recon_results' = recon_results \cup ResultRows(RunOf(task), results)
                 /\ recon_runs' = [recon_runs EXCEPT ![RunOf(task)] =
                        Summarized(@, results, vima_txns, payshack_txns)]
    /\ recon_tasks' = [recon_tasks EXCEPT ![t].pc = "done"]
    /\ UNCHANGED <<syncvars, normvars, clientvars, eventvars>>

\* A statement of the try block raises (the SELECTs of _load_transactions,
\* the commit): nothing of the pass is stored.  The handler sets the run
\* failed and commits on the same session, with no rollback in between;
\* that commit goes through, or raises in its turn and the run row stays as
\* committed before.
ReconRaise(t) ==
    /\ t \in DOMAIN recon_tasks
    /\ recon_tasks[t].pc = "running"
    /\ \/ \E len \in ErrLens :
            recon_runs' = [recon_runs EXCEPT
                              ![RunOf(recon_tasks[t])].status = "failed",
                              ![RunOf(recon_tasks[t])].error_message = Truncate(len)]
       \/ UNCHANGED recon_runs
    /\ recon_tasks' = [recon_tasks EXCEPT ![t].pc = "done"]
    /\ UNCHANGED <<syncvars, normvars, clientvars, eventvars, recon_results>>

\* Rows of table "transactions" for reconciliation, as the sync services
\* store them.
VimaOp(id, key, amount, status, day) ==
    [provider |-> "vima",
     raw |-> [operation_id |-> id, operation_create_id |-> id,
              operation_update_id |-> 1, client_operation_id |-> key,
              complete_amount |-> Num(amount, 0), payment_status |-> status,
              operation_created_at |-> day]]

PayShackTxn(id, key, amount, day) ==
    [provider |-> "payin",
     raw |-> [txnId |-> id, orderId |-> key, amount |-> Num(amount, 0),
              txnStatus |-> "SUCCESS", createdAt |-> day]]

\* At most one first and one second record per source.  The first Vima
\* record is of 20.00 or 5.00, successful or failed; the first PayShack
\* record is at, within, or beyond the tolerance around these.
FirstVima ==
    {{}} \cup {{VimaOp(1, key, amount, status, 1)} :
                 key \in {1, NULL}, amount \in {2000, 500},
                 status \in {"success", "fail"}}
SecondVima ==
    {{}} \cup {{VimaOp(2, key, 2000, "success", 1)} : key \in {1, 2, NULL}}
         \cup {{VimaOp(2, 1, 2000, "success", 2)}}
FirstPayShack ==
    {{}} \cup {{PayShackTxn(1, key, amount, 1)} :
                 key \in {1, 2}, amount \in {2000, 2002, 2003, 1997, 500, 501, 502}}
SecondPayShack ==
    {{}} \cup {{PayShackTxn(2, key, 2000, 1)} : key \in {1, 2, NULL}}
         \cup {{PayShackTxn(2, 1, 2000, 2)}}

\* The normalized records of a set of raw records, in some order.
RECURSIVE NormalizedOf(_)
NormalizedOf(records) ==
    IF records = {} THEN <<>>
    ELSE LET x == CHOOSE y \in records : TRUE
         IN  <<IF x.provider = "vima" THEN VimaNormalize(x.raw)
               ELSE PayShackNormalize(x.raw, x.provider)>>
             \o NormalizedOf(records \ {x})

ReconInit ==
    /\ focus = "none"
    /\ \E v1 \in FirstVima, v2 \in SecondVima, p1 \in FirstPayShack,
          p2 \in SecondPayShack :
         transactions = UpsertTransactions({}, NormalizedOf(v1 \cup v2 \cup p1 \cup p2), 0)
    /\ sync_state = [s \in Sources |-> NoSyncState]
    /\ runs = [r \in Slots |-> NoRun]
    /\ vima_feed = <<>> /\ payin_feed = <<>> /\ payout_feed = <<>>
    /\ initial_done = FALSE
    /\ crashes = 0
    /\ last_upsert = <<>>
    /\ NormIdle
    /\ ReconIdle
    /\ ClientIdle
    /\ EventIdle

ReconNext ==
    \/ \E date \in ReconDates, force \in BOOLEAN : ReconTrigger(date, force)
    \/ \E t \in TaskIds : ReconCreate(t)
    \/ \E t \in TaskIds : ReconPass(t)
    \/ \E t \in TaskIds : ReconRaise(t)

ReconSpec == ReconInit /\ [][ReconNext]_vars

-----------------------------------------------------------------------------
(* The connectors: VimaClient.get_operations and                           *)
(* PayShackClient.get_payin_transactions / get_payout_transactions, one    *)
(* call at a time against a provider that answers every request            *)

\* What sending a request ends with: a response with a status, or an
\* exception of httpx (a timeout, a refused connection).
Transient == {"TimeoutException", "ConnectError"}
Answers == {"200", "401", "403", "500"} \cup Transient

\* What leaves a method whose request was not answered with a page:
\* raise_for_status raises HTTPStatusError for a 4xx or 5xx status, the
\* request itself raises the timeout or connection error, and the except
\* clauses turn HTTPStatusError and RequestError (the base class of the
\* timeout and connection errors) into the API error of the connector.
Escapes(answer) ==
    LET raised == IF answer \in Transient THEN answer ELSE "HTTPStatusError"
    IN  IF raised \in Transient \cup {"HTTPStatusError"} THEN "APIError" ELSE raised

\* The @retry wrapper around an attempt that raised: another attempt while
\* the exception is a timeout or connection error
\* (retry_if_exception_type) and attempts are left (stop_after_attempt),
\* else the call ends with the exception.
Retrying(c, exception) ==
    IF exception \in Transient /\ c.attempt < StopAfter
    THEN [c EXCEPT !.attempt = c.attempt + 1, !.pc = "call"]
    ELSE [c EXCEPT !.pc = "done", !.outcome = exception]

\* A call of a method: the connector, the page asked for, whether the
\* connector holds a token, the attempt of the @retry wrapper, how many
\* calls of the method are nested, the answers so far to its page requests
\* and to its logins, and how often the 401/403 handler has logged in.
NewCall(client, page, token) ==
    [ pc |-> "call", client |-> client, page |-> page, token |-> token,
      attempt |-> 1, depth |-> 1, gets |-> <<>>, logins |-> <<>>,
      reauths |-> 0, requested |-> <<>>, outcome |-> "none" ]

\* login(): the token on success; the API error for any failure.
Login(c, answer) ==
    IF answer = "200"
    THEN [c EXCEPT !.token = TRUE, !.logins = Append(@, answer)]
    ELSE [c EXCEPT !.pc = "done", !.outcome = Escapes(answer),
                   !.logins = Append(@, answer)]

\* _ensure_auth at the head of a PayShack method when no token is held.
EnsureAuth ==
    /\ call.pc = "call" /\ call.client # "vima" /\ ~call.token
    /\ \E answer \in Answers : call' = Login(call, answer)
    /\ UNCHANGED <<syncvars, normvars, reconvars, eventvars>>

\* The request of the page and what the method does with the answer.  A 401
\* or 403 sends a PayShack method to its re-login branch.
SendRequest ==
    /\ call.pc = "call" /\ (call.client = "vima" \/ call.token)
    /\ \E answer \in Answers :
         LET sent == [call EXCEPT !.gets = Append(@, answer),
                                  !.requested = Append(@, call.page)]
         IN  call' =
               IF answer = "200" THEN [sent EXCEPT !.pc = "done", !.outcome = "page"]
               ELSE IF call.client # "vima" /\ answer \in {"401", "403"}
               THEN [sent EXCEPT !.pc = "relogin", !.token = FALSE]
               ELSE Retrying(sent, Escapes(answer))
    /\ UNCHANGED <<syncvars, normvars, reconvars, eventvars>>

\* The 401/403 branch: the token is dropped, _ensure_auth logs in, and the
\* method calls itself with the same arguments.  The nested call runs
\* inside this one; the interpreter ends a nesting deeper than its limit
\* with RecursionError.
Relogin ==
    /\ call.pc = "relogin"
    /\ \E answer \in Answers :
         LET logged == Login([call EXCEPT !.reauths = call.reauths + 1], answer)
         IN  call' =
               IF logged.pc = "done" THEN logged
               ELSE IF call.depth >= RecursionLimit
               THEN [logged EXCEPT !.pc = "done", !.outcome = "RecursionError"]
               ELSE [logged EXCEPT !.pc = "call", !.depth = call.depth + 1,
                                   !.attempt = 1]
    /\ UNCHANGED <<syncvars, normvars, reconvars, eventvars>>

Clients == {"vima", "payin", "payout"}

ClientInit ==
    /\ SyncIdle
    /\ NormIdle
    /\ ReconIdle
    /\ EventIdle
    /\ \E client \in Clients, page \in 1..payin_max_pages, token \in BOOLEAN :
         /\ client = "vima" => ~token
         /\ call = NewCall(client, page, token)

ClientNext == EnsureAuth \/ SendRequest \/ Relogin

ClientSpec == ClientInit /\ [][ClientNext]_vars

-----------------------------------------------------------------------------
(* ConnectionManager of /updates and the broadcasts the sync runs await *)

\* websocket_updates: a client connects; manager.connect adds its socket.
Connect(c) ==
    /\ Observed
    /\ c \notin active_connections
    /\ active_connections' = active_connections \cup {c}
    /\ UNCHANGED <<syncvars, normvars, reconvars, clientvars, delivery>>

\* websocket_updates: the client is gone; manager.disconnect discards its
\* socket.
Disconnect(c) ==
    /\ Observed
    /\ c \in active_connections
    /\ active_connections' = active_connections \ {c}
    /\ UNCHANGED <<syncvars, normvars, reconvars, clientvars, delivery>>

\* str() of the RuntimeError the iteration over a set raises when the set
\* has another size than when the iteration began.
SetChanged == Len("Set changed size during iteration")

\* broadcast() raises in run r: the exception leaves the page loop and ends
\* in except Exception of the sync method, which marks the source failed and
\* commits the session with whatever the run had executed in it.
BroadcastRaises(r) ==
    LET run == runs[r]
    IN  /\ sync_state' = [sync_state EXCEPT ![run.source] =
               IF run.source = "vima" THEN VimaFailState(@, SetChanged)
               ELSE PayShackFailState(@, SetChanged)]
        /\ transactions' = UpsertTransactions(transactions, run.pending, Now(r))
        /\ last_upsert' = IF run.pending = <<>> THEN last_upsert ELSE run.pending
        /\ runs' = [runs EXCEPT ![r] = Done(run, "failed")]
        /\ delivery' = [delivery EXCEPT ![r] =
                           [NoDelivery EXCEPT !.said = delivery[r].said]]
        /\ UNCHANGED active_connections

\* broadcast() returns in run r, leaving conns connected: the run awaits
\* the broadcast of its next message, or goes on.
Delivered(r, conns) ==
    LET d == delivery[r]
        rest == Tail(d.msgs)
    IN  /\ active_connections' = conns
        /\ delivery' = [delivery EXCEPT ![r] =
               [NoDelivery EXCEPT !.said = IF rest = <<>> THEN d.said
                                            ELSE Append(d.said, Head(rest)),
                                  !.msgs = rest,
                                  !.next = IF rest = <<>> THEN "none" ELSE d.next]]
        /\ runs' = IF rest = <<>> THEN [runs EXCEPT ![r].pc = d.next] ELSE runs
        /\ UNCHANGED <<transactions, sync_state, last_upsert>>

\* The loop of broadcast() in run r awaits send_text of connection c, the
\* connections of disconnected being those whose send_text raised.
Sending(r, c, disconnected) ==
    LET d == delivery[r]
    IN  /\ delivery' = [delivery EXCEPT ![r] =
               [d EXCEPT !.iterating = TRUE,
                         !.start = IF d.iterating THEN d.start ELSE active_connections,
                         !.visited = (IF d.iterating THEN d.visited ELSE {}) \cup {c},
                         !.sending = c,
                         !.disconnected = disconnected]]
        /\ UNCHANGED <<runs, active_connections, transactions, sync_state, last_upsert>>

\* One step of `await manager.broadcast(message)` in run r.  Without
\* connections it returns at once.  Otherwise the for statement takes the
\* connections of the set itself one after the other (in the order of the
\* set's table, which a connection that joined meanwhile may precede) and
\* awaits send_text of each, noting those that raise; when the set has not
\* the size it had when the loop began, the for statement raises.  After the
\* loop the noted connections are discarded.
Deliver(r) ==
    /\ Observed
    /\ runs[r].pc = "broadcast"
    /\ LET d == delivery[r]
       IN  IF ~d.iterating
           THEN IF active_connections = {}
                THEN Delivered(r, {})
                ELSE \E c \in active_connections : Sending(r, c, {})
           ELSE \E sent \in BOOLEAN :
                  LET disconnected == IF sent THEN d.disconnected
                                      ELSE d.disconnected \cup {d.sending}
                      left == active_connections \ d.visited
                  IN  IF Cardinality(active_connections) # Cardinality(d.start)
                      THEN BroadcastRaises(r)
                      ELSE \/ \E c \in left : Sending(r, c, disconnected)
                           \/ /\ left \subseteq (active_connections \ d.start)
                              /\ Delivered(r, active_connections \ disconnected)
    /\ UNCHANGED <<vima_feed, payin_feed, payout_feed, initial_done, crashes,
                   focus, normvars, reconvars, clientvars>>

\* The runs of one source with their broadcasts, both feeds in good shape.
EventInit ==
    /\ Observed
    /\ transactions = {}
    /\ sync_state = [s \in Sources |-> NoSyncState]
    /\ runs = [r \in Slots |-> NoRun]
    /\ vima_feed = FeedOf(NVimaOps, {})
    /\ payin_feed = FeedOf(NPayin, {})
    /\ payout_feed = FeedOf(NPayout, {})
    /\ initial_done = FALSE
    /\ crashes = 0
    /\ last_upsert = <<>>
    /\ NormIdle
    /\ ReconIdle
    /\ ClientIdle
    /\ EventIdle

EventNext ==
    \/ \E s \in Sources : Tick(s)
    \/ InitialSync
    \/ \E r \in Slots : VimaStart(r)
    \/ \E r \in Slots : VimaReadCursor(r)
    \/ \E r \in Slots : VimaFetch(r)
    \/ \E r \in Slots : VimaFinish(r)
    \/ \E r \in Slots : VimaHistStart(r)
    \/ \E r \in Slots : VimaHistFetch(r)
    \/ \E r \in Slots : VimaHistFinish(r)
    \/ \E r \in Slots : PayShackStart(r)
    \/ \E r \in Slots : PayShackFetch(r)
    \/ \E r \in Slots : PayShackFinish(r)
    \/ \E c \in Conns : Connect(c)
    \/ \E c \in Conns : Disconnect(c)
    \/ \E r \in Slots : Deliver(r)

EventSpec == EventInit /\ [][EventNext]_vars

-----------------------------------------------------------------------------
(* The runs of a source, or one call of a connector, under fair scheduling: *)
(* the event loop resumes a coroutine that can go on, and the upstream      *)
(* answers every request (with a page, a re-served page, a wrong            *)
(* totalPages, an error, 401/403).                                          *)

\* The next step of run r.
RunStep(r) ==
    \/ VimaStart(r) \/ VimaFetch(r) \/ VimaFinish(r)
    \/ VimaHistStart(r) \/ VimaHistFetch(r) \/ VimaHistFinish(r)
    \/ PayShackStart(r) \/ PayShackFetch(r) \/ PayShackFinish(r)

TermInit == (Init /\ Adverse) \/ ClientInit

TermNext ==
    \/ \E s \in Sources : Tick(s)
    \/ InitialSync
    \/ \E r \in Slots : RunStep(r)
    \/ EnsureAuth
    \/ SendRequest
    \/ Relogin

TermSpec == TermInit /\ [][TermNext]_vars /\ WF_vars(TermNext)

\* The job instances and tasks that have returned are gone: the scheduler
\* keeps firing the interval jobs for as long as the process lives.
Forget ==
    /\ \E r \in Slots : runs[r].pc = "done"
    /\ \A r \in Slots : ~Active(r)
    /\ runs' = [r \in Slots |-> NoRun]
    /\ UNCHANGED <<transactions, sync_state, vima_feed, payin_feed, payout_feed,
                   initial_done, crashes, last_upsert, focus, normvars, reconvars,
                   clientvars, eventvars>>

\* The ticks of the PayShack job over feeds that do not change, with an
\* upstream that answers every request with the page asked for: the pay-in
\* list is at most one record longer than the pages of one run hold.
ConvInit ==
    /\ focus = "both"
    /\ transactions = {}
    /\ sync_state = [s \in Sources |-> NoSyncState]
    /\ runs = [r \in Slots |-> NoRun]
    /\ vima_feed = FeedOf(NVimaOps, {})
    /\ \E n \in 1..(payin_max_pages * PageSize + 1), bad \in {{}, {1}} :
          /\ payin_feed = FeedOf(n, bad)
          /\ payout_feed \in {<<>>} \cup (IF n <= NPayin THEN {FeedOf(NPayout, {})}
                                          ELSE {})
    /\ initial_done = FALSE
    /\ crashes = 0
    /\ last_upsert = <<>>
    /\ NormIdle
    /\ ReconIdle
    /\ ClientIdle
    /\ EventIdle

ConvNext ==
    \/ Tick("payshack")
    \/ \E r \in Slots : PayShackStart(r)
    \/ \E r \in Slots : PayShackFetch(r)
    \/ \E r \in Slots : PayShackFinish(r)
    \/ Forget

\* The scheduler fires its jobs and the event loop resumes the coroutines
\* for ever.
ConvSpec == ConvInit /\ [][ConvNext]_vars /\ WF_vars(ConvNext)

-----------------------------------------------------------------------------
(* Properties *)

RowsOf(hash) == {row \in transactions : row.data_hash = hash}

Keys(store) == {row.data_hash : row \in store}

MutableOf(x) ==
    <<x.status, x.original_status, x.updated_at, x.completed_at, x.raw_data>>

\* C1: after a batch of normalized records was upserted, each of its
\* records has exactly one row with its dedup key, and that row's status,
\* original status, updated / completed timestamps and raw payload are the
\* record's (those of the latest upsert of the key); upserting the batch
\* once more adds no row and loses none.
C1_IdempotentUpsert ==
    /\ \A k \in 1..Len(last_upsert) :
         /\ Cardinality(RowsOf(last_upsert[k].data_hash)) = 1
         /\ \A row \in RowsOf(last_upsert[k].data_hash) :
              MutableOf(row) = MutableOf(last_upsert[k])
    /\ LET replayed == UpsertTransactions(transactions, last_upsert, 0)
       IN  /\ Cardinality(replayed) = Cardinality(transactions)
           /\ Keys(replayed) = Keys(transactions)
           /\ \A k \in 1..Len(last_upsert) :
                \A row \in {x \in replayed : x.data_hash = last_upsert[k].data_hash} :
                   MutableOf(row) = MutableOf(last_upsert[k])

\* A record upserted a second time in a later version: the row was inserted
\* without a fee and the latest batch carries the completed record.
C1_Witness ==
    \E k \in 1..Len(last_upsert) :
       /\ last_upsert[k].status = "success"
       /\ last_upsert[k].fee # NULL
       /\ \E row \in RowsOf(last_upsert[k].data_hash) :
            row.fee = NULL /\ row.status = "success"

\* C2: in every reachable state no two rows of the transactions table
\* carry the same dedup key.
C2_UniqueDedupKey ==
    \A a, b \in transactions : a.data_hash = b.data_hash => a = b

\* Two runs of one source in progress at once that were both answered with
\* the same non-empty page, whose records are in the table.
C2_Witness ==
    \E r1, r2 \in Slots :
       /\ r1 # r2 /\ r1[1] = r2[1]
       /\ Active(r1) /\ Active(r2)
       /\ runs[r1].seen # <<>> /\ runs[r2].seen # <<>>
       /\ Last(runs[r1].seen).ops # <<>>
       /\ Last(runs[r1].seen).ops = Last(runs[r2].seen).ops
       /\ Cardinality(transactions) >= 2

Columns == DOMAIN NewRow({}, VimaNormalize(VimaRaw(1, 1, "ok")), 0)

\* The columns the spec names as mutable.
SpecMutable ==
    {"status", "original_status", "updated_at", "completed_at", "amount_usd",
     "fee_usd", "exchange_rate", "raw_data"}

\* The columns the ON CONFLICT clauses of the two services set.
CodeMutable(source) ==
    IF source = "vima"
    THEN {"status", "original_status", "updated_at", "completed_at",
          "source_update_cursor", "raw_data"}
    ELSE {"status", "original_status", "updated_at", "completed_at", "utr",
          "amount_usd", "fee_usd", "exchange_rate", "raw_data", "ingested_at"}

\* Every row is still there after the step, equal in the columns outside
\* mutable(source).
Keeps(mutable(_)) ==
    \A old \in transactions :
       \E new \in transactions' :
          /\ new.id = old.id
          /\ \A c \in Columns \ mutable(old.source) : new[c] = old[c]

SpecMutableOf(source) == SpecMutable

\* C3 as stated: a step changes an existing row at most in status, original
\* status, updated / completed timestamps, the USD fields and the raw
\* payload.
C3_OnlySpecMutable == [][Keeps(SpecMutableOf)]_vars

\* C3: a step changes an existing row at most in the columns its source's
\* ON CONFLICT clause sets: status, original status, updated / completed
\* timestamps, raw payload, and the update cursor (Vima) or UTR, USD
\* fields and ingestion time (PayShack); source, source id, business keys,
\* amount, currency, fee, creation time, create cursor and dedup key keep
\* their values.
C3_OnlyMutableOverwritten == [][Keeps(CodeMutable)]_vars

\* A row whose stored payload is the completed operation with a fee, while
\* the fee column still holds what the insert wrote.
C3_Witness ==
    \E row \in transactions :
       /\ row.source = "vima"
       /\ row.raw_data.charged_fee # NULL
       /\ row.fee = NULL
       /\ row.source_update_cursor = row.raw_data.operation_update_id

\* A run is in its running phase from the first statement of sync() or
\* historical_sync() to its return.
Running(r) == runs[r].pc \notin {"none", "start", "done", "dead"}

\* C4: at most one run per source is in its running phase.
C4_SingleFlight ==
    \A s \in Sources : Cardinality({r \in Slots : r[1] = s /\ Running(r)}) <= 1

StateRunning(s) == sync_state[s].present /\ sync_state[s].sync_status = "running"

\* C5: when sync() or historical_sync() is entered without force while the
\* source's row says running, the invocation returns at once: no run, no
\* request, transactions and sync_state as they were.
C5_GuardedEntry ==
    [][\A r \in Slots :
          (/\ runs[r].pc = "start"
           /\ runs'[r].pc \notin {"start", "dead"}
           /\ ~runs[r].force
           /\ StateRunning(r[1]))
          => (runs'[r].pc = "done" /\ UNCHANGED <<transactions, sync_state>>)]_vars

VimaCursor == sync_state["vima"].last_create_cursor

VimaRows == {row \in transactions : row.source = "vima"}

\* The operation of the feed that carries the create id c.
OpAt(c) == c

\* C6: in every committed state the persisted Vima cursor is the create id
\* of an operation that is a committed row, and every operation at or
\* before it that normalizes is a committed row; no step (a failure or the death of the
\* process included) removes a committed row or takes the cursor back to
\* none.
C6_CursorCommitted ==
    /\ [](VimaCursor # NULL =>
            /\ \E row \in VimaRows : row.source_id = OpAt(VimaCursor)
            /\ \A i \in 1..NVimaOps :
                 (i <= VimaCursor /\ vima_feed[i].kind = "ok")
                 => \E row \in VimaRows : row.source_id = i)
    /\ [][/\ Keys(transactions) \subseteq Keys(transactions')
          /\ (VimaCursor # NULL => VimaCursor' # NULL)]_vars

\* The process died with an incremental run between two pages: the first
\* page and the cursor after it are committed, the operations after the
\* cursor are not.
C6_Witness ==
    /\ crashes > 0
    /\ VimaCursor # NULL /\ VimaCursor < NVimaOps
    /\ \E row \in VimaRows : row.source_id = OpAt(VimaCursor)
    /\ \A row \in VimaRows : row.source_id <= OpAt(VimaCursor)
    /\ \E r \in Slots : r[1] = "vima" /\ runs[r].pc = "dead"

\* The answers a run has seen are a script of non-empty pages with strictly
\* increasing cursors (the empty page that ends the feed may follow).
RECURSIVE Scripted(_, _)
Scripted(seen, before) ==
    IF seen = <<>> THEN TRUE
    ELSE LET e == Head(seen) IN
         /\ e.kind = "page"
         /\ IF e.ops = <<>> THEN Tail(seen) = <<>>
            ELSE /\ Last(e.ops).operation_create_id # NULL
                 /\ Last(e.ops).operation_create_id > before
                 /\ Last(e.ops).operation_create_id > CursorNum(e.at)
                 /\ Scripted(Tail(seen), Last(e.ops).operation_create_id)

\* The create id of the last operation of the last non-empty page seen.
RECURSIVE LastPageCursor(_)
LastPageCursor(seen) ==
    IF seen = <<>> THEN NULL
    ELSE IF Last(seen).ops # <<>> THEN Last(Last(seen).ops).operation_create_id
    ELSE LastPageCursor(SubSeq(seen, 1, Len(seen) - 1))

\* C7: when an incremental Vima run that saw a script of non-empty pages
\* with strictly increasing cursors returns, the persisted cursor is the
\* create id of the last operation of the last page.
C7_CursorAtRunEnd ==
    [][\A r \in Slots :
          (/\ runs[r].pc = "finish" /\ runs'[r].pc = "done"
           /\ runs[r].source = "vima" /\ runs[r].mode = "incremental"
           /\ Scripted(runs[r].seen, 0)
           /\ LastPageCursor(runs[r].seen) # NULL)
          => sync_state'["vima"].last_create_cursor = LastPageCursor(runs[r].seen)]_vars

\* Run r made a request in this step and goes on.
Fetched(r) ==
    /\ runs[r].pc \in {"fetch", "hfetch"}
    /\ Len(runs'[r].seen) = Len(runs[r].seen) + 1

\* The last operation of the page carries no create id, or the one the page
\* was requested from.
Stalled(e) ==
    /\ e.kind = "page" /\ e.ops # <<>>
    /\ Last(e.ops).operation_create_id \in {NULL, e.at}

\* No operation of the page normalizes, or the last that does carries no
\* create id or the one the page was requested from.
NormStalled(e) ==
    /\ e.kind = "page" /\ e.ops # <<>>
    /\ \/ VimaNormalizeBatch(e.ops) = <<>>
       \/ Last(VimaNormalizeBatch(e.ops)).source_create_cursor \in {NULL, e.at}

\* C8 as stated: after a page whose last record carries the requested
\* cursor or none, the run requests no further page.
C8_NoFurtherPage ==
    [][\A r \in Slots :
          (Fetched(r) /\ Stalled(Last(runs'[r].seen)))
          => runs'[r].pc \notin {"fetch", "hfetch"}]_vars

\* C8: an incremental run requests no further page after a page whose last
\* record carries the requested cursor or none; a historical run requests
\* no further page of the date after a page whose last normalized record
\* does (or that has none), and goes on with the next date.
C8_PaginationHalts ==
    [][\A r \in Slots :
          Fetched(r) =>
            /\ (runs[r].mode = "incremental" /\ Stalled(Last(runs'[r].seen)))
               => runs'[r].pc = "finish"
            /\ (runs[r].mode = "historical" /\ NormStalled(Last(runs'[r].seen)))
               => \/ runs'[r].pc = "finish"
                  \/ /\ runs'[r].day_offset < runs[r].day_offset
                     /\ runs'[r].cursor = NULL]_vars

\* An incremental run stopped by a page that did not advance, and a
\* historical run that left a date on such a page for the next date.
C8_Witness ==
    /\ \E r \in Slots :
          /\ r[1] = "vima"
          /\ runs[r].mode = "incremental" /\ runs[r].pc = "finish"
          /\ runs[r].seen # <<>> /\ Stalled(Last(runs[r].seen))
    /\ \E r \in Slots :
          /\ runs[r].mode = "historical" /\ runs[r].pc = "hfetch"
          /\ runs[r].seen # <<>> /\ NormStalled(Last(runs[r].seen))
          /\ runs[r].day_offset < Last(runs[r].seen).day

HadError(seen) == \E k \in 1..Len(seen) : seen[k].kind = "error"

\* C9: a run that got an error from its connector, or that fails, returns
\* with the source's row failed and an error message of at most 500
\* characters, and as failed.
C9_ErrorsFail ==
    [][\A r \in Slots :
          (/\ Active(r) /\ runs'[r].pc = "done"
           /\ (HadError(runs[r].seen) \/ runs'[r].result = "failed"))
          => /\ runs'[r].result = "failed"
             /\ sync_state'[r[1]].sync_status = "failed"
             /\ sync_state'[r[1]].error_message # NULL
             /\ sync_state'[r[1]].error_message <= ErrLimit]_vars

\* The records among the answers seen on which normalization raises.
RECURSIVE BadSeen(_)
BadSeen(seen) ==
    IF seen = <<>> THEN 0
    ELSE Cardinality({k \in 1..Len(Head(seen).ops) :
            IF "txnId" \in DOMAIN Head(seen).ops[k]
            THEN PayShackNormalizeRaises(Head(seen).ops[k])
            ELSE VimaNormalizeRaises(Head(seen).ops[k])})
         + BadSeen(Tail(seen))

\* Every record of the source's feeds that normalizes has a row.
AllIngested(s, store) ==
    IF s = "vima"
    THEN \A i \in 1..NVimaOps :
            vima_feed[i].kind = "ok"
            => \E row \in store : row.source = "vima" /\ row.source_id = i
    ELSE /\ \A i \in 1..NPayin :
              payin_feed[i].kind = "ok"
              => \E row \in store : row.source = "payshack" /\ row.source_id = i
         /\ \A i \in 1..NPayout :
              payout_feed[i].kind = "ok"
              => \E row \in store : row.source = "payshack"
                                    /\ row.source_id = NPayin + i

\* C10: against an upstream that answers every request with the page asked
\* for, a run returns as successful, has counted the records on which
\* normalization raised, and every record of the feed that normalizes is
\* in the table.
C10_BadRecordSkipped ==
    [][\A r \in Slots :
          (~Adverse /\ Active(r) /\ runs'[r].pc = "done")
          => /\ runs'[r].result = "success"
             /\ runs[r].errors = BadSeen(runs[r].seen)
             /\ AllIngested(r[1], transactions')]_vars

-----------------------------------------------------------------------------
(* Properties of the normalizers *)

\* The calls of normalize that returned: index into norm_in / norm_out.
Returned == {k \in 1..Len(norm_out) : norm_out[k] # Raised}

Canonical == {"success", "failed", "pending", "processing", "refunded"}

\* The lookup tables as documented in the normalizer classes.
VimaDocumented ==
    { <<"success", "success">>, <<"fail", "failed">>, <<"failed", "failed">>,
      <<"in_process", "pending">>, <<"in process", "pending">>,
      <<"user_input_required", "pending">>, <<"pending", "pending">> }

PayShackDocumented ==
    { <<"success", "success">>, <<"failed", "failed">>, <<"initiated", "pending">>,
      <<"pending", "pending">>, <<"in process", "processing">>,
      <<"in_process", "processing">>, <<"incomplete", "pending">>,
      <<"refunded", "refunded">>, <<"cb_refunded", "refunded">>,
      <<"tampered", "failed">> }

Documented(provider) == IF provider = "vima" THEN VimaDocumented ELSE PayShackDocumented

\* The canonical status documented for a status word (lower case).
Expected(table, word) ==
    IF \E p \in table : p[1] = word
    THEN (CHOOSE p \in table : p[1] = word)[2]
    ELSE "pending"

\* The status fields of a provider's record.
StatusFields(provider) ==
    CASE provider = "vima" -> {"payment_status", "current_status"}
      [] provider = "payin" -> {"txnStatus"}
      [] provider = "payout" -> {"txnStatus", "status"}

\* The non-empty status texts a raw record carries.
CarriedStatus(in) ==
    {in.raw[f] : f \in {g \in StatusFields(in.provider) \cap DOMAIN in.raw :
                          Truthy(in.raw[g])}}

\* C11: whatever the spelling of a status word, normalize yields the status
\* that the provider's table documents for the word, and pending for a word
\* the table does not have and for an empty or missing status; the status
\* is always one of success, failed, pending, processing, refunded.
C11_StatusMapping ==
    \A k \in Returned :
        LET in == norm_in[k]
            status == norm_out[k].status
        IN  /\ status \in Canonical
            /\ CarriedStatus(in) = {} => status = "pending"
            /\ \A w \in Spellings :
                 (CarriedStatus(in) # {} /\ CarriedStatus(in) \subseteq {w[1], w[2], w[3]})
                 => status = Expected(Documented(in.provider), w[1])

\* A pay-out record whose only status is "REFUNDED", under the key "status",
\* was normalized to refunded.
C11_Witness ==
    \E k \in Returned :
        /\ norm_in[k].provider = "payout"
        /\ "txnStatus" \notin DOMAIN norm_in[k].raw
        /\ CarriedStatus(norm_in[k]) = {"REFUNDED"}
        /\ norm_out[k].status = "refunded"

\* C12: when complete_amount (major units) is there, the amount normalize
\* yields is that number unchanged; when only the nested value in minor
\* units is there, the amount is that value divided by 100 (an amount in
\* hundredths equal to the count of minor units).
C12_AmountUnits ==
    \A k \in Returned :
        norm_in[k].provider = "vima" =>
            LET raw == norm_in[k].raw
                complete_amount == Get(raw, "complete_amount", NoneNum)
            IN  IF complete_amount # NoneNum
                THEN norm_out[k].amount = complete_amount
                ELSE "create_params" \in DOMAIN raw
                     => norm_out[k].amount.val = raw.create_params

\* A record with only the nested value 150 was normalized to 1.5.
C12_Witness ==
    \E k \in Returned :
        /\ norm_in[k].provider = "vima"
        /\ "complete_amount" \notin DOMAIN norm_in[k].raw
        /\ "create_params" \in DOMAIN norm_in[k].raw
        /\ norm_in[k].raw.create_params = 150
        /\ norm_out[k].amount = Num(150, 1)

\* The five values the dedup key is documented to depend on; amounts are
\* Decimals and are equal when their values are.
FiveValues(n) == <<n.source, n.source_id, n.amount.val, n.currency, n.created_at>>

\* C13: two normalized records have the same dedup key exactly when they
\* agree on source, source id, amount, currency and creation time, whatever
\* their status, update time and other payload (and so normalizing a record
\* twice gives one key).
C13_KeyOfFiveValues ==
    \A i, j \in Returned :
        (FiveValues(norm_out[i]) = FiveValues(norm_out[j]))
        <=> (norm_out[i].data_hash = norm_out[j].data_hash)

-----------------------------------------------------------------------------
(* Properties of reconciliation *)

CompletedRuns == {i \in DOMAIN recon_runs : recon_runs[i].status = "completed"}

\* The result rows a run owns.
RowsOfRun(i) == {row \in recon_results : row.result.recon_run_id = i}

RowsWith(i, match_status) ==
    {row \in RowsOfRun(i) : row.result.match_status = match_status}

\* The records of a source created on a date.
VimaOn(date) ==
    {row \in transactions : row.source = "vima" /\ row.created_at = date}
PayShackOn(date) ==
    {row \in transactions : row.source = "payshack" /\ row.created_at = date}

\* The business key of a row.
BusinessKey(row) ==
    IF row.source = "vima" THEN row.client_operation_id ELSE IndexKey(row)

WithKey(rows, key) == {row \in rows : BusinessKey(row) = key}

\* Every record of the date has a business key, every key occurs once on
\* each side, and the two records of a key agree in amount and status.
Symmetric(date) ==
    /\ \A row \in VimaOn(date) \cup PayShackOn(date) :
         /\ BusinessKey(row) # NULL
         /\ Cardinality(WithKey(VimaOn(date), BusinessKey(row))) = 1
         /\ Cardinality(WithKey(PayShackOn(date), BusinessKey(row))) = 1
    /\ \A v \in VimaOn(date), p \in PayShackOn(date) :
         BusinessKey(v) = BusinessKey(p) => v.amount = p.amount /\ v.status = p.status

\* C14: over a date on which every business key occurs once on each side
\* with one amount and one status, a completed run owns exactly one result
\* per pair, a matched one, and nothing else; its counts say so.
C14_MatchingSymmetry ==
    \A i \in CompletedRuns :
        LET date == recon_runs[i].recon_date
        IN  Symmetric(date) =>
              /\ \A v \in VimaOn(date) :
                   Cardinality({row \in RowsWith(i, "matched") :
                       /\ row.result.vima_txn_id = v.id
                       /\ \E p \in WithKey(PayShackOn(date), BusinessKey(v)) :
                            row.result.payshack_txn_id = p.id}) = 1
              /\ Cardinality(RowsOfRun(i)) = Cardinality(VimaOn(date))
              /\ RowsOfRun(i) = RowsWith(i, "matched")
              /\ recon_runs[i].matched = Cardinality(VimaOn(date))
              /\ recon_runs[i].discrepancies = 0
              /\ recon_runs[i].missing_vima = 0
              /\ recon_runs[i].missing_payshack = 0

\* A completed run over two pairs, with two matched results.
C14_Witness ==
    \E i \in CompletedRuns :
        /\ Symmetric(recon_runs[i].recon_date)
        /\ Cardinality(VimaOn(recon_runs[i].recon_date)) = 2
        /\ Cardinality(RowsWith(i, "matched")) = 2

\* The result rows of a run that compare two records.
Pairs(i) == RowsWith(i, "matched") \cup RowsWith(i, "discrepancy")

TxnById(id) == CHOOSE row \in transactions : row.id = id

\* The amounts of the two records of a result, and the threshold
\* max(0.01, amountA * 0.001), in thousandths of a hundredth.
AmountDiff(result) ==
    Abs(TxnById(result.vima_txn_id).amount - TxnById(result.payshack_txn_id).amount)
Threshold(result) ==
    Max(AMOUNT_TOLERANCE * 1000,
        TxnById(result.vima_txn_id).amount * AMOUNT_TOLERANCE_PERCENT)
SameStatus(result) ==
    TxnById(result.vima_txn_id).status = TxnById(result.payshack_txn_id).status

\* C15: a pair of equal status whose amounts differ by exactly the threshold
\* is matched; one whose amounts differ by one hundredth more is a
\* discrepancy of kind amount.
C15_ToleranceBoundary ==
    \A i \in CompletedRuns : \A row \in Pairs(i) :
        LET result == row.result
        IN  /\ (SameStatus(result) /\ AmountDiff(result) * 1000 = Threshold(result))
               => result.match_status = "matched"
            /\ (SameStatus(result) /\ (AmountDiff(result) - 1) * 1000 = Threshold(result))
               => /\ result.match_status = "discrepancy"
                  /\ result.discrepancy_type = "amount"

\* A pair of 20.00 and 20.02 was matched (threshold 0.02).
C15_Witness ==
    \E i \in CompletedRuns : \E row \in Pairs(i) :
        /\ TxnById(row.result.vima_txn_id).amount = 2000
        /\ TxnById(row.result.payshack_txn_id).amount = 2002
        /\ row.result.match_status = "matched"

\* The Vima records of a date whose key is not null and not among the
\* PayShack keys, and the PayShack records whose key is not among the Vima
\* keys (a record without key included).
VimaAbsent(date) ==
    {v \in VimaOn(date) : BusinessKey(v) # NULL
                          /\ WithKey(PayShackOn(date), BusinessKey(v)) = {}}
PayShackAbsent(date) ==
    {p \in PayShackOn(date) : \/ BusinessKey(p) = NULL
                              \/ WithKey(VimaOn(date), BusinessKey(p)) = {}}

\* Each record whose key the other source lacks has exactly one missing_*
\* result of the run.
EachAbsentReported(i) ==
    LET date == recon_runs[i].recon_date
    IN  /\ \A v \in VimaAbsent(date) :
             Cardinality({row \in RowsWith(i, "missing_payshack") :
                            row.result.vima_txn_id = v.id}) = 1
        /\ \A p \in PayShackAbsent(date) :
             Cardinality({row \in RowsWith(i, "missing_vima") :
                            row.result.payshack_txn_id = p.id}) = 1

\* C16 as stated: each such record has exactly one missing_* result, and the
\* run's missing_payshack and missing_vima counts are the numbers of these
\* records.
C16_MissingCountsExact ==
    \A i \in CompletedRuns :
        LET date == recon_runs[i].recon_date
        IN  /\ EachAbsentReported(i)
            /\ recon_runs[i].missing_payshack = Cardinality(VimaAbsent(date))
            /\ recon_runs[i].missing_vima = Cardinality(PayShackAbsent(date))

\* The PayShack records of a date that no result of the run compares with
\* a Vima record.
NotCompared(i) ==
    {p \in PayShackOn(recon_runs[i].recon_date) :
        \A row \in Pairs(i) : row.result.payshack_txn_id # p.id}

\* C16: each record whose key the other source lacks has exactly one
\* missing_* result; missing_payshack counts the Vima records with a key
\* that PayShack lacks; missing_vima counts the PayShack records that were
\* not compared with a Vima record, one result each: those whose key Vima
\* lacks and those that share their key with another PayShack record which
\* took their place.
C16_MissingDetection ==
    \A i \in CompletedRuns :
        LET date == recon_runs[i].recon_date
        IN  /\ EachAbsentReported(i)
            /\ recon_runs[i].missing_payshack = Cardinality(VimaAbsent(date))
            /\ recon_runs[i].missing_payshack = Cardinality(RowsWith(i, "missing_payshack"))
            /\ recon_runs[i].missing_vima = Cardinality(RowsWith(i, "missing_vima"))
            /\ {row.result.payshack_txn_id : row \in RowsWith(i, "missing_vima")}
               = {p.id : p \in NotCompared(i)}
            /\ Cardinality(RowsWith(i, "missing_vima")) = Cardinality(NotCompared(i))
            /\ PayShackAbsent(date) \subseteq NotCompared(i)
            /\ \A p \in NotCompared(i) \ PayShackAbsent(date) :
                 Cardinality(WithKey(PayShackOn(date), BusinessKey(p))) > 1

\* A completed run over a Vima record and a PayShack record of different
\* keys: one missing_payshack and one missing_vima result.
C16_Witness ==
    \E i \in CompletedRuns :
        /\ Cardinality(VimaAbsent(recon_runs[i].recon_date)) = 1
        /\ Cardinality(PayShackAbsent(recon_runs[i].recon_date)) = 1
        /\ recon_runs[i].missing_payshack = 1
        /\ recon_runs[i].missing_vima = 1

\* C17: a compared pair that differs in amount beyond the threshold and in
\* status is a discrepancy of kind amount; one that differs in status only
\* is a discrepancy of kind status.
C17_Precedence ==
    \A i \in CompletedRuns : \A row \in Pairs(i) :
        LET result == row.result
            beyond == AmountDiff(result) * 1000 > Threshold(result)
        IN  /\ (beyond /\ ~SameStatus(result))
               => /\ result.match_status = "discrepancy"
                  /\ result.discrepancy_type = "amount"
            /\ (~beyond /\ ~SameStatus(result))
               => /\ result.match_status = "discrepancy"
                  /\ result.discrepancy_type = "status"

\* A failed Vima record of 20.00 against a successful PayShack record of
\* 20.03: kind amount.
C17_Witness ==
    \E i \in CompletedRuns : \E row \in Pairs(i) :
        /\ ~SameStatus(row.result)
        /\ AmountDiff(row.result) * 1000 > Threshold(row.result)
        /\ row.result.discrepancy_type = "amount"

\* C18: a pass that raises leaves its run failed with a message of at most
\* 500 characters and without results; results belong to completed runs
\* only.
C18_RaiseFailsRun ==
    [][ /\ \A t \in DOMAIN recon_tasks :
             LET i == recon_tasks[t].run
             IN  (/\ recon_tasks[t].pc = "running"
                  /\ recon_tasks'[t].pc = "done"
                  /\ recon_runs'[i].status # "completed")
                 => /\ recon_runs'[i].status = "failed"
                    /\ recon_runs'[i].error_message \in 0..ErrLimit
                    /\ \A row \in recon_results' : row.result.recon_run_id # i
        /\ \A row \in recon_results' :
             recon_runs'[row.result.recon_run_id].status = "completed" ]_vars

FinishedRuns == {i \in DOMAIN recon_runs : recon_runs[i].status \in {"completed", "failed"}}

\* C19: a task that starts adds a run row of its own, and no step changes
\* a run that is completed or failed, or the results it owns.
C19_RunsNeverRewritten ==
    [][ /\ \A t \in DOMAIN recon_tasks :
             (recon_tasks[t].pc = "queued" /\ recon_tasks'[t].pc = "running")
             => /\ Len(recon_runs') = Len(recon_runs) + 1
                /\ recon_tasks'[t].run = Len(recon_runs')
                /\ recon_runs'[Len(recon_runs')] = NewReconRun(recon_tasks[t].date)
        /\ \A i \in FinishedRuns :
             /\ i \in DOMAIN recon_runs'
             /\ recon_runs'[i] = recon_runs[i]
             /\ {row \in recon_results' : row.result.recon_run_id = i} = RowsOfRun(i) ]_vars

\* Two runs of one date, the first completed with results before the second
\* was created, the second finished as well.
C19_Witness ==
    /\ Len(recon_runs) = 2
    /\ recon_runs[1].recon_date = recon_runs[2].recon_date
    /\ recon_runs[1].status = "completed" /\ RowsOfRun(1) # {}
    /\ recon_runs[2].status = "failed"
    /\ \A t \in DOMAIN recon_tasks : recon_tasks[t].pc = "done"

\* C20: a request that starts a task for a date which has a completed run
\* carries the force flag.
C20_RerunOnlyForced ==
    [][ Len(recon_tasks') > Len(recon_tasks)
        => LET task == recon_tasks'[Len(recon_tasks')]
           IN  (\E i \in CompletedRuns : recon_runs[i].recon_date = task.date)
               => task.force ]_vars

\* C30: the aggregate counts of a completed run are the numbers of its
\* persisted results per match status, and its totals are the numbers of
\* transactions of each source loaded for its date.
C30_CountsEqualResults ==
    \A i \in CompletedRuns :
        /\ recon_runs[i].matched = Cardinality(RowsWith(i, "matched"))
        /\ recon_runs[i].discrepancies = Cardinality(RowsWith(i, "discrepancy"))
        /\ recon_runs[i].missing_vima = Cardinality(RowsWith(i, "missing_vima"))
        /\ recon_runs[i].missing_payshack = Cardinality(RowsWith(i, "missing_payshack"))
        /\ recon_runs[i].total_vima = Cardinality(VimaOn(recon_runs[i].recon_date))
        /\ recon_runs[i].total_payshack = Cardinality(PayShackOn(recon_runs[i].recon_date))
        /\ Cardinality(RowsOfRun(i)) =
             recon_runs[i].matched + recon_runs[i].discrepancies
             + recon_runs[i].missing_vima + recon_runs[i].missing_payshack

\* A completed run with results of more than one status over sources of
\* different sizes.
C30_Witness ==
    \E i \in CompletedRuns :
        /\ recon_runs[i].matched + recon_runs[i].discrepancies >= 1
        /\ recon_runs[i].missing_vima >= 1
        /\ recon_runs[i].total_payshack > recon_runs[i].total_vima
        /\ RowsOfRun(i) # {}

-----------------------------------------------------------------------------
(* Properties of the sync_state rows *)

\* C29: once a run of a source has returned, in incremental or historical
\* mode, the sync_state row of the source exists.
C29_RowAfterFirstRun ==
    \A r \in Slots : runs[r].pc = "done" => sync_state[r[1]].present

-----------------------------------------------------------------------------
(* Properties of pagination *)

\* The requests a run has made in a phase (pay-in, pay-out, the incremental
\* loop, a date of the historical loop).
Requests(run, phase, day) ==
    Cardinality({i \in DOMAIN run.seen :
                    run.seen[i].phase = phase /\ run.seen[i].day = day})

\* The ceiling of a phase.
Ceiling(phase) ==
    CASE phase = "fetch" -> vima_max_batches
      [] phase = "hfetch" -> hist_max_batches
      [] phase = "payin" -> payin_max_pages
      [] phase = "payout" -> payout_max_pages

Phases == {"fetch", "hfetch", "payin", "payout"}

\* C25: in one run the number of pages requested from a feed (per date in
\* a historical Vima run) never exceeds the ceiling of the feed, and a run
\* about to request a page has requested fewer pages than the ceiling,
\* whatever totals or cursors the server reports.
C25_PageCeiling ==
    \A r \in Slots :
        /\ \A phase \in Phases, day \in 0..initial_sync_days :
              Requests(runs[r], phase, day) <= Ceiling(phase)
        /\ runs[r].pc \in Phases =>
              Requests(runs[r], runs[r].pc, runs[r].day_offset) < Ceiling(runs[r].pc)

\* An incremental Vima run that left the loop on the ceiling: its last page
\* moved the cursor on; and a PayShack run that left the pay-in loop with
\* as many requests as the ceiling allows, all answered with pages.
C25_Witness ==
    /\ \E r \in Slots :
          /\ r[1] = "vima" /\ runs[r].mode = "incremental" /\ runs[r].pc = "finish"
          /\ Requests(runs[r], "fetch", 0) = vima_max_batches
          /\ Last(runs[r].seen).ops # <<>>
          /\ ~Stalled(Last(runs[r].seen))
    /\ \E r \in Slots :
          /\ r[1] = "payshack" /\ runs[r].pc = "payout"
          /\ Requests(runs[r], "payin", 0) = payin_max_pages
          /\ \A i \in DOMAIN runs[r].seen : runs[r].seen[i].ops # <<>>

\* Two requests of the same loop of a run.
SamePhase(e, f) == e.phase = f.phase /\ e.day = f.day

\* The place a request was made at, as a number: the page number, or the
\* create id asked from (0 for none).
Place(e) == CursorNum(e.at)

\* The cursor a page leaves its loop with.
PageEnd(e) ==
    IF e.phase = "fetch" THEN Last(e.ops).operation_create_id
    ELSE Last(VimaNormalizeBatch(e.ops)).source_create_cursor

\* The records of a page that normalize have been written by the run: they
\* are rows of the table, or executed in the run's open transaction.
Written(r, e) ==
    LET normalized == IF r[1] = "vima" THEN VimaNormalizeBatch(e.ops)
                      ELSE PayShackNormalizeBatch(e.ops, e.phase)
    IN  \A k \in DOMAIN normalized :
          \/ \E row \in transactions :
                row.source = r[1] /\ row.source_id = normalized[k].source_id
          \/ \E j \in DOMAIN runs[r].pending :
                runs[r].pending[j].source_id = normalized[k].source_id

-----------------------------------------------------------------------------
(* Properties of the connectors *)

\* The page requests of the call that were answered with 401 or 403.
AuthFailures ==
    Cardinality({i \in DOMAIN call.gets : call.gets[i] \in {"401", "403"}})

\* C23: a call reports a failure after a timeout or a connection error only
\* when that was its third attempt; after one such failure it goes on to
\* another attempt.
C23_TransientRetried ==
    (call.pc # "none" /\ call.gets # <<>> /\ Last(call.gets) \in Transient)
    => /\ call.pc = "done" => call.attempt = StopAfter
       /\ Len(call.gets) = 1 => call.pc = "call"

\* C24: a PayShack call logs in again for a 401/403 answer at most once;
\* when the retried request is answered with 401/403 too, the call ends
\* with the API error.
C24_OneReauth ==
    call.pc # "none" =>
        /\ call.reauths <= 1
        /\ AuthFailures >= 2 => (call.pc = "done" /\ call.outcome = "APIError")

-----------------------------------------------------------------------------
(* Properties of the events *)

\* C21: broadcasting is isolated from ingestion: a step of a broadcast that
\* a run has under way (a send to a subscriber that completes or raises, with
\* subscribers connecting and disconnecting meanwhile) changes neither the
\* sync_state rows nor the transactions, and the run then goes on where it
\* was to go on.
C21_DeliveryIsolated ==
    [][\A r \in Slots :
          (runs[r].pc = "broadcast" /\ delivery'[r] # delivery[r])
          => /\ sync_state' = sync_state
             /\ transactions' = transactions
             /\ runs'[r].pc \in {"broadcast", delivery[r].next}]_vars

\* C27: every message a run has broadcast carries the name of the run's
\* source in its source field, and a new_transactions message carries a
\* number in its count field.
C27_EventFields ==
    \A r \in Slots :
        \A k \in 1..Len(delivery[r].said) :
            LET message == delivery[r].said[k]
            IN  /\ message.source = Text(r[1])
                /\ message.type = "new_transactions"
                   => DOMAIN message.count = DOMAIN Number(0)

-----------------------------------------------------------------------------
(* Properties of termination *)

\* C26: every run of the source under observation that has started comes to
\* its end (success or failed), whatever pages, totalPages and errors the
\* upstream answers with; and every call of a connector returns or raises,
\* whatever the answers (401/403 included) to its requests and logins.
C26_RunsTerminate ==
    /\ \A n \in 1..MaxRuns :
          (focus \in Sources /\ Active(<<focus, n>>))
          ~> (focus \in Sources /\ ~Active(<<focus, n>>))
    /\ (call.pc \in {"call", "relogin"}) ~> (call.pc = "done")

\* A PayShack run is past both of its loops with every request of both
\* answered by a page that was not empty, the pay-in pages with a
\* totalPages that is a page ahead.
C26_Witness ==
    \E r \in Slots :
        /\ r[1] = "payshack" /\ runs[r].pc = "finish"
        /\ Requests(runs[r], "payin", 0) = payin_max_pages
        /\ Requests(runs[r], "payout", 0) = payout_max_pages
        /\ \A i \in DOMAIN runs[r].seen :
              /\ runs[r].seen[i].kind = "page"
              /\ runs[r].seen[i].ops # <<>>

-----------------------------------------------------------------------------
(* Properties of convergence *)

\* Every record of the PayShack feeds that normalizes has its row.
PayShackIngested ==
    /\ \A i \in DOMAIN payin_feed :
          payin_feed[i].kind = "ok"
          => \E row \in transactions : row.source = "payshack" /\ row.source_id = i
    /\ \A i \in DOMAIN payout_feed :
          payout_feed[i].kind = "ok"
          => \E row \in transactions :
                row.source = "payshack" /\ row.source_id = NPayin + i

\* C22: with PayShack feeds that do not change and requests that all
\* succeed, from some tick of the PayShack job on every upstream record that
\* normalizes is in the transactions table, and stays there.
C22_Convergence == <>[]PayShackIngested

-----------------------------------------------------------------------------
(* Properties of the sync status *)

\* C31: while a run of a source is past its entry and has not returned, the
\* sync_state row of the source exists and says running.
C31_RunningWhileExecuting ==
    \A r \in Slots : Running(r) => StateRunning(r[1])

-----------------------------------------------------------------------------
(* Properties of the order of the events *)

\* The sync_started, sync_progress and sync_completed messages among those
\* run r has broadcast, in the order of their broadcast.
Lifecycle(r) ==
    SelectSeq(delivery[r].said,
              LAMBDA m : m.type \in {"sync_started", "sync_progress", "sync_completed"})

\* C32: the first of these messages of a run is its sync_started and no
\* other is; a sync_completed is the last of them; a run that has broadcast
\* sync_completed ends as success, and a run that has ended as success has
\* broadcast it.
C32_EventOrder ==
    \A r \in Slots :
        LET life == Lifecycle(r)
        IN  /\ \A k \in 1..Len(life) :
                  /\ life[k].type = "sync_started" <=> k = 1
                  /\ life[k].type = "sync_completed" => k = Len(life)
            /\ (\E k \in 1..Len(life) : life[k].type = "sync_completed")
               => runs[r].result = "success"
            /\ (runs[r].pc = "done" /\ runs[r].result = "success")
               => (\E k \in 1..Len(life) : life[k].type = "sync_completed")

-----------------------------------------------------------------------------
(* Properties of the persisted cursor across runs *)

\* C33: the persisted incremental cursor of Vima never moves backwards:
\* whatever runs of the source follow or overlap each other, every write of
\* last_create_cursor is greater than or equal to the value persisted
\* before it.
C33_CursorMonotone ==
    [][CursorNum(VimaCursor') >= CursorNum(VimaCursor)]_vars

-----------------------------------------------------------------------------
(* Properties of the results per PayShack record *)

\* The results of a run that reference a PayShack record.
ReferencesTo(i, p) == {row \in RowsOfRun(i) : row.result.payshack_txn_id = p.id}

\* C34: in a completed reconciliation run every PayShack transaction of the
\* date is referenced by exactly one result, a matched or discrepancy result
\* or a missing_vima result, never both and never two, also when several
\* records of a side share a business key.
C34_OneResultPerPayShack ==
    \A i \in CompletedRuns :
        \A p \in PayShackOn(recon_runs[i].recon_date) :
            /\ Cardinality(ReferencesTo(i, p)) = 1
            /\ \A row \in ReferencesTo(i, p) :
                 row.result.match_status \in {"matched", "discrepancy", "missing_vima"}

-----------------------------------------------------------------------------
(* Properties of PayShack's last sync time *)

\* C35: PayShack's last_sync_at, from which the next incremental run takes
\* its window, is advanced only by a run all of whose pay-in and pay-out
\* page requests succeeded; a run that left a page loop on an error does
\* not advance it.
C35_LastSyncAfterCleanRun ==
    [][\A r \in Slots :
          (/\ r[1] = "payshack"
           /\ runs[r].pc = "finish" /\ runs'[r].pc # "finish"
           /\ sync_state'["payshack"].last_sync_at # sync_state["payshack"].last_sync_at)
          => ~HadError(runs[r].seen)]_vars

-----------------------------------------------------------------------------
(* Properties of concurrent reconciliation requests *)

RunningRuns(date) ==
    {i \in DOMAIN recon_runs : /\ recon_runs[i].recon_date = date
                               /\ recon_runs[i].status = "running"}

\* C36: as long as no request for a date carried the force flag, at most
\* one reconciliation run of that date is in status running, also when two
\* requests for the date arrive at the same time.
C36_OneRunningPerDate ==
    \A date \in ReconDates :
        (\A t \in DOMAIN recon_tasks :
            recon_tasks[t].date = date => ~recon_tasks[t].force)
        => Cardinality(RunningRuns(date)) <= 1

-----------------------------------------------------------------------------
(* Properties of the normalized records against the table *)

\* Transaction: the columns declared nullable=False that the normalizers
\* fill (id and ingested_at have defaults).
NotNullColumns(n) ==
    /\ n.source # NONE
    /\ n.source_id # NULL
    /\ n.amount # NoneNum
    /\ n.currency # NONE
    /\ n.status # NONE
    /\ n.created_at # NULL

\* C37: every record a normalizer returns without raising has a source, a
\* source id, an amount, a currency, a status and a creation time that are
\* not null (the columns the table requires), also when the upstream record
\* has no creation time, so that the upsert of a page of normalized records
\* is not rejected.
C37_RequiredFieldsPresent ==
    \A k \in Returned : NotNullColumns(norm_out[k])

-----------------------------------------------------------------------------
(* Properties of the historical sync and the cursor *)

\* The answers a run has seen for one date of the historical loop.
OfDate(seen, day) ==
    SelectSeq(seen, LAMBDA e : e.phase = "hfetch" /\ e.day = day)

\* C38: no step of a historical Vima run changes the persisted
\* last_create_cursor, and every page it requests is asked from a position
\* that the persisted cursor has no part in: from no cursor for the first
\* page of a date, from the create id of the last record of the date's
\* previous page for the others.
C38_HistoricalKeepsCursor ==
    [][\A r \in Slots :
          (/\ r[1] = "vima" /\ runs[r].mode = "historical"
           /\ Active(r) /\ runs'[r] # runs[r])
          => /\ VimaCursor' = VimaCursor
             /\ Len(runs'[r].seen) > Len(runs[r].seen)
                => LET e == Last(runs'[r].seen)
                       before == OfDate(runs[r].seen, e.day)
                   IN  e.at = IF before = <<>> THEN NULL
                              ELSE Last(VimaNormalizeBatch(Last(before).ops)).source_create_cursor
      ]_vars

\* A historical run has paged through the date of the feed and asked for
\* the date after it, while an incremental run beside it has moved the
\* persisted cursor to the end of the feed.
C38_Witness ==
    \E r \in Slots :
        /\ r[1] = "vima" /\ runs[r].mode = "historical" /\ runs[r].pc = "finish"
        /\ Requests(runs[r], "hfetch", FeedDay) = 2
        /\ Requests(runs[r], "hfetch", 0) = 1
        /\ VimaCursor = NVimaOps

-----------------------------------------------------------------------------
(* The ticks of the Vima job while the provider moves an operation to its  *)
(* next version, under fair scheduling and with an upstream that answers    *)
(* every request with the page asked for.                                   *)

\* The provider changes the status of an operation: same operation_id and
\* operation_create_id, next operation_update_id.
VimaStatusChange ==
    /\ TotalUpdates < MaxUpdates
    /\ \E i \in DOMAIN vima_feed :
          /\ vima_feed[i].ver < MaxVer
          /\ vima_feed' = Bump(vima_feed, i)
    /\ UNCHANGED <<transactions, sync_state, runs, payin_feed, payout_feed,
                   initial_done, crashes, last_upsert, focus, normvars, reconvars,
                   clientvars, eventvars>>

UpdateInit ==
    /\ focus = "both"
    /\ transactions = {}
    /\ sync_state = [s \in Sources |-> NoSyncState]
    /\ runs = [r \in Slots |-> NoRun]
    /\ \E bad \in {{}, {2}} : vima_feed = FeedOf(NVimaOps, bad)
    /\ payin_feed = <<>> /\ payout_feed = <<>>
    /\ initial_done = FALSE
    /\ crashes = 0
    /\ last_upsert = <<>>
    /\ NormIdle
    /\ ReconIdle
    /\ ClientIdle
    /\ EventIdle

UpdateNext ==
    \/ Tick("vima")
    \/ \E r \in Slots : VimaStart(r)
    \/ \E r \in Slots : VimaFetch(r)
    \/ \E r \in Slots : VimaFinish(r)
    \/ Forget
    \/ VimaStatusChange

\* The scheduler fires the job and the event loop resumes the coroutines
\* for ever.
UpdateSpec == UpdateInit /\ [][UpdateNext]_vars /\ WF_vars(UpdateNext)

\* The status the provider now reports for operation i.
UpstreamStatus(i) ==
    VimaNormalize(VimaRaw(i, vima_feed[i].ver, vima_feed[i].kind)).status

\* Operation i has a row whose status is not the one the provider reports.
Stale(i) ==
    \E row \in VimaRows : row.source_id = i /\ row.status # UpstreamStatus(i)

\* C39: when the provider changes the status of an operation that has a
\* row, the scheduled incremental runs that follow bring the row's status
\* to the provider's.
C39_StatusReflected ==
    (\E i \in DOMAIN vima_feed : Stale(i)) ~> (\A i \in DOMAIN vima_feed : ~Stale(i))

====
